---------------------------- MODULE Spec2Model ----------------------------
(***************************************************************************)
(* A model of python-memtools: the snapshot store (MemoryReader), its      *)
(* parallel scanner (map_all_addresses), the catalog bootstrap             *)
(* (find_base_type_object, find_all_type_objects, AnalysisShell::prepare)  *)
(* and the shell queries built on them.                                    *)
(***************************************************************************)
EXTENDS Integers, Sequences, FiniteSets, TLC

\* ------------------------------------------------------------------------
\* Bounds of the model
\* ------------------------------------------------------------------------

\* Width of a mapped address / size_t in the model (uint64_t in the source).
AddrBits == 16
AddrMod == 2 ^ AddrBits

\* Largest number of scanner worker threads.
MaxThreads == 2

\* ------------------------------------------------------------------------
\* Unsigned arithmetic of the source (uint64_t / size_t, modulo AddrMod)
\* ------------------------------------------------------------------------

U(x) == x % AddrMod

RECURSIVE BitAnd(_, _)
BitAnd(a, b) ==
    IF a = 0 \/ b = 0 THEN 0
    ELSE (IF a % 2 = 1 /\ b % 2 = 1 THEN 1 ELSE 0) + 2 * BitAnd(a \div 2, b \div 2)

SetMax(S) == CHOOSE x \in S : \A y \in S : y <= x
SetMin(S) == CHOOSE x \in S : \A y \in S : x <= y

\* MappedPtr::offset_bytes: this->addr + bytes
offset_bytes(addr, bytes) == U(addr + bytes)

\* MappedPtr::bytes_until: end_ptr.addr - this->addr
bytes_until(addr, end_ptr) == U(end_ptr - addr)

\* ------------------------------------------------------------------------
\* Snapshots: the region lists a MemoryReader can hold.  regions_by_mapped
\* is a std::map keyed by start address, so a list is ascending by addr;
\* regions do not overlap and lie inside the address space.
\* ------------------------------------------------------------------------

Rgn(a, s) == [addr |-> a, size |-> s]

RegionLists ==
    { << Rgn(4096, 8192) >>,
      << Rgn(4096, 4096), Rgn(8192, 4096) >>,
      << Rgn(4096, 6144), Rgn(16384, 4096) >>,
      << Rgn(4096, 2048), Rgn(8192, 8192) >>,
      << Rgn(8, 4), Rgn(4096, 4096) >>,
      << Rgn(4096, 4096), Rgn(12288, 1024), Rgn(16384, 4096) >> }

VARIABLES
    regions_by_mapped,  \* MemoryReader::regions_by_mapped, as the ascending list
    heap,               \* the objects the snapshot's bytes decode to, by address
    q,                  \* arguments of the MemoryReader call under test
    ret,                \* what each MemoryReader operation returned for q
    called,             \* the MemoryReader operations already applied to q
    \* map_all_addresses
    args,               \* [stride, num_threads, object_size] of the running call
    current_offset,     \* std::atomic<uint64_t> current_offset
    thr,                \* per worker thread: [pc, offset, current_region, z, obj]
    mainpc,             \* position of the calling (main) thread
    progress,           \* progress loop: [current_region, addr] of the last line built
    calls,              \* bag (address -> count) of the recording predicate's invocations
    \* the terminal and the command's std::mutex output_lock
    output_lock,        \* holder of the command's output_lock, or NoThread
    term,               \* the last write to stdout/stderr: who, what, lock holder then
    \* AnalysisShell and its Environment (the catalog)
    shell,              \* [pc, max_threads, sizeof_T, session]
    cmd,                \* the query whose predicate the running scan calls
    env,                \* [base_type_object, type_objects]
    saved,              \* the catalog file written by save_analysis, or NotSaved
    candidates,         \* find_base_type_object: std::vector candidates
    any_env_changes_made, \* find_all_type_objects: bool any_env_changes_made
    result_count,       \* find-all-objects: std::atomic<size_t> result_count
    catalog_write,      \* history: the last mutation of env: who, scan running, lock holder
    first_catalog,      \* history: env.type_objects as the first session left it
    \* async-task-graph
    await_targets_for_obj, \* address -> set of the addresses it awaits
    roots,              \* std::set roots (also of find-all-stacks): the roots still to be printed
    print_stack,        \* the active calls of print_entry: [addr, next_addrs]
    seen,               \* the unordered_set seen of the root being printed
    stderr_lines,       \* the lines written to stderr by the command: [depth, kind, addr]
    graph_pc,           \* position of the command: roots, print, done
    \* find-all-stacks
    back_for_frame,     \* address of a collected frame -> its f_back
    walk_addr,          \* addr of the traceback loop (0: no traceback under way)
    stacks_pc,          \* position of the command: roots, trace, done
    \* aggregate-strings and count-by-type
    histogram_data,     \* std::vector<size_t> histogram_data
    total_size,         \* size_t total_size
    total_objects,      \* size_t total_objects
    printed,            \* history: address -> number of times its repr was printed
    count_for_type,     \* count_for_type[thread_index]: type address -> count
    entries,            \* the lines the command writes after its scan
    \* Traversal::repr of a dict or set
    trav,               \* the Traversal t: depth, limits, the cycle guard's open set
    repr_stack,         \* the active calls of repr: [addr, todo, n]
    repr_call,          \* the address t.repr is being called on (0: none)
    repr_out,           \* the markers in the text rendered so far
    repr_pc,            \* position of the rendering: call, items, done
    \* the decoders under test
    dec_obj,            \* the object whose bytes are decoded
    dec,                \* the functions called on it and what they returned
    \* MemoryReader::dump and the open of its directory
    dump_ranges,        \* std::vector ranges of dump: [addr, size]
    dump_readable,      \* range index -> readable bytes from the range's start
    dump_files,         \* the directory: [filename, total_size, data_from]
    dump_todo,          \* the range indices parallel_range has not yet run
    dump_pc,            \* position: dump, dumped, opened
    \* AnalysisShell::run
    input,              \* the lines readline will return, then end of input
    next_line,          \* how many of them readline has returned
    should_exit,        \* AnalysisShell::should_exit
    run_pc,             \* position of run: loop, done
    run_log,            \* history: per line dispatched, what became of it
    ended_by,           \* history: what ended the loop
    \* find-all-objects
    reports             \* history: the number each finished command reported

snapVars == << regions_by_mapped, heap >>
readerVars == << q, ret, called >>
scanVars == << args, current_offset, thr, mainpc, progress >>
termVars == << output_lock, term >>
catVars == << env, saved, candidates, any_env_changes_made, result_count, catalog_write,
             first_catalog >>
shellVars == << shell, cmd >>
graphVars == << await_targets_for_obj, roots, print_stack, seen, stderr_lines, graph_pc >>
stackVars == << back_for_frame, walk_addr, stacks_pc >>
tallyVars == << histogram_data, total_size, total_objects, printed, count_for_type, entries >>
reprVars == << trav, repr_stack, repr_call, repr_out, repr_pc >>
decVars == << dec_obj, dec >>
dumpVars == << dump_ranges, dump_readable, dump_files, dump_todo, dump_pc >>
loopVars == << input, next_line, should_exit, run_pc, run_log, ended_by >>
reportVars == << reports >>
extraVars == << reprVars, decVars, dumpVars, loopVars, reportVars >>
moreVars == << stackVars, tallyVars, extraVars >>

\* ------------------------------------------------------------------------
\* MemoryReader
\* ------------------------------------------------------------------------

NoRegion == 0

\* find_region_by_mapped_addr: upper_bound(addr), step back, end check.
\* Returns the index of the region, or NoRegion for std::out_of_range.
find_region_by_mapped_addr(addr) ==
    LET notAfter == { i \in DOMAIN regions_by_mapped : regions_by_mapped[i].addr <= addr }
    IN  IF notAfter = {} THEN NoRegion
        ELSE LET it == SetMax(notAfter)
                 rgn == regions_by_mapped[it]
             IN  IF offset_bytes(rgn.addr, rgn.size) <= addr THEN NoRegion ELSE it

exists(addr) == find_region_by_mapped_addr(addr) # NoRegion

exists_range(addr, size) ==
    LET it == find_region_by_mapped_addr(addr)
    IN  IF it = NoRegion THEN FALSE
        ELSE LET rgn == regions_by_mapped[it]
             IN  bytes_until(rgn.addr, offset_bytes(addr, size)) <= rgn.size

OutOfRange == [ok |-> FALSE, region |-> NoRegion, offset |-> 0, size |-> 0]

read_MutantOffByOne(addr, size) ==
    LET it == find_region_by_mapped_addr(addr)
    IN  IF it = NoRegion THEN OutOfRange
        ELSE LET rgn == regions_by_mapped[it]
                 offset == bytes_until(rgn.addr, addr)
             IN  IF (U(offset + size) >= rgn.size) \/ (U(offset + size) < offset)
                 THEN OutOfRange
                 ELSE [ok |-> TRUE, region |-> it, offset |-> offset, size |-> size]

\* MemoryReader::read: the view (region, offset, size) or std::out_of_range.
read(addr, size) ==
    LET it == find_region_by_mapped_addr(addr)
    IN  IF it = NoRegion THEN OutOfRange
        ELSE LET rgn == regions_by_mapped[it]
                 offset == bytes_until(rgn.addr, addr)
             IN  IF (U(offset + size) > rgn.size) \/ (U(offset + size) < offset)
                 THEN OutOfRange
                 ELSE [ok |-> TRUE, region |-> it, offset |-> offset, size |-> size]

Min(a, b) == IF a < b THEN a ELSE b

\* Variant of the context command that does not clip to the region.
context_MutantUnclipped(addr, size) ==
    IF find_region_by_mapped_addr(addr) = NoRegion THEN OutOfRange
    ELSE read(offset_bytes(addr, -size), U(size + size))

\* The context command: region_for_address(addr), which throws for an
\* address in no region, then the clipped read around addr.  The result is
\* that of the read, whose bytes print_data dumps from read_start_addr on.
context(addr, size) ==
    LET it == find_region_by_mapped_addr(addr)
    IN  IF it = NoRegion THEN OutOfRange
        ELSE LET rgn == regions_by_mapped[it]
                 bytes_before == Min(size, U(addr - rgn.addr))
                 bytes_after == Min(size, bytes_until(addr, offset_bytes(rgn.addr, rgn.size)))
                 bytes_to_read == U(bytes_before + bytes_after)
                 read_start_addr == offset_bytes(addr, -bytes_before)
             IN  read(read_start_addr, bytes_to_read)

\* obj_valid<T>(addr, alignment); sizeofT is sizeof(SizeType).
obj_valid(addr, alignment, sizeofT) ==
    (addr # 0) /\ (BitAnd(addr, U(alignment - 1)) = 0) /\ exists_range(addr, sizeofT)

\* obj_valid_or_null<T>(addr, alignment), with the parentheses of the source.
obj_valid_or_null(addr, alignment, sizeofT) ==
    (addr = 0) \/ ~((BitAnd(addr, U(alignment - 1)) # 0) /\ exists_range(addr, sizeofT))

\* No MemoryReader call is under test.
NoRet == [read |-> OutOfRange, exists_range |-> FALSE, obj_valid |-> FALSE,
          obj_valid_or_null |-> FALSE, context |-> OutOfRange]

ReaderIdle ==
    /\ q = [addr |-> 0, size |-> 0, alignment |-> 1, sizeofT |-> 1]
    /\ ret = NoRet
    /\ called = {}

\* ------------------------------------------------------------------------
\* The terminal (stdout/stderr) and the output lock of the running command
\* ------------------------------------------------------------------------

NoThread == -1
MainThread == -2

NoWrite == [writer |-> NoThread, kind |-> "none", holder |-> NoThread, during |-> {},
            in_scan |-> FALSE]

TermIdle ==
    /\ output_lock = NoThread
    /\ term = NoWrite

\* ------------------------------------------------------------------------
\* The decoded objects of the snapshot, the Environment and the shell
\* ------------------------------------------------------------------------

\* What the bytes at an address decode to: the ob_type pointer of the header,
\* whether invalid_reason(env) is non-null, the decoded name of a type
\* object, and whether Traversal::repr leaves is_valid set.
NoObject == [ob_type |-> 0, invalid |-> TRUE, name |-> "", repr_valid |-> FALSE]

object_at(addr) == IF addr \in DOMAIN heap THEN heap[addr] ELSE NoObject

\* sizeof(PyTypeObject) and sizeof(PyObject), the object sizes of the scans.
sizeof_PyTypeObject == 64
sizeof_PyObject == 16

\* Environment with no analysis data: base_type_object null, type_objects empty.
\* A key of type_objects is the pair (name, A): A = 0 for the plain name and
\* A = addr for std::format("{}+{}", name, addr).
NullEnv == [base_type_object |-> 0, type_objects |-> << >>]

NotSaved == [base_type_object |-> 0, type_objects |-> << >>, written |-> FALSE]

\* Environment::save_analysis(): the catalog file holds the current env.
save_analysis(e) ==
    [base_type_object |-> e.base_type_object, type_objects |-> e.type_objects,
     written |-> TRUE]

NoCatalogWrite == [writer |-> NoThread, in_scan |-> FALSE, holder |-> NoThread]

NoCmd == [name |-> "none", type_addr |-> 0, count_only |-> FALSE]

RecordCmd == [name |-> "record", type_addr |-> 0, count_only |-> FALSE]

\* find DATA --ptr [--align=ALIGN] [--count]: the scan compares the 8-byte
\* word at each address with target_value.
FindCmd(count_only) ==
    [name |-> "find", type_addr |-> 0, count_only |-> count_only, target_value |-> 7]

CatIdle ==
    /\ env = NullEnv
    /\ saved = NotSaved
    /\ candidates = << >>
    /\ any_env_changes_made = FALSE
    /\ result_count = 0
    /\ catalog_write = NoCatalogWrite
    /\ first_catalog = << >>

NoShell == [pc |-> "none", max_threads |-> 0, session |-> 0]

\* No find-all-stacks command is running.
StacksIdle ==
    /\ back_for_frame = << >>
    /\ walk_addr = 0
    /\ stacks_pc = "none"

\* No aggregate-strings or count-by-type command is running.
TallyIdle ==
    /\ histogram_data = << >>
    /\ total_size = 0
    /\ total_objects = 0
    /\ printed = << >>
    /\ count_for_type = << >>
    /\ entries = << >>

NoTraversal == [recursion_depth |-> 0, max_recursion_depth |-> 0, max_entries |-> 0,
                open |-> {}]

\* No repr is being rendered.
ReprIdle ==
    /\ trav = NoTraversal
    /\ repr_stack = << >>
    /\ repr_call = 0
    /\ repr_out = {}
    /\ repr_pc = "none"

\* No decoder is under test.
DecodeIdle ==
    /\ dec_obj = [kind |-> "none"]
    /\ dec = [called |-> {}, invalid_reason |-> "", localsplus_read |-> {},
              direct_referents |-> [raised |-> FALSE, addrs |-> {}]]

\* No dump is running.
DumpIdle ==
    /\ dump_ranges = << >>
    /\ dump_readable = << >>
    /\ dump_files = {}
    /\ dump_todo = {}
    /\ dump_pc = "none"

\* No shell loop is running.
LoopIdle ==
    /\ input = << >>
    /\ next_line = 0
    /\ should_exit = FALSE
    /\ run_pc = "none"
    /\ run_log = << >>
    /\ ended_by = "none"

\* No find-all-objects command has finished.
ReportIdle == reports = << >>

ExtraIdle == ReprIdle /\ DecodeIdle /\ DumpIdle /\ LoopIdle /\ ReportIdle

\* None of the other queries is running.
MoreIdle == StacksIdle /\ TallyIdle /\ ExtraIdle

\* No async-task-graph command is running.
GraphIdle ==
    /\ await_targets_for_obj = << >>
    /\ roots = {}
    /\ print_stack = << >>
    /\ seen = {}
    /\ stderr_lines = << >>
    /\ graph_pc = "none"

\* std::unordered_map::emplace(key, value): inserts unless the key is present.
emplace(m, key, value) ==
    IF key \in DOMAIN m THEN m
    ELSE [k \in DOMAIN m \cup {key} |-> IF k = key THEN value ELSE m[k]]

PlainKey(type_name) == [name |-> type_name, plus |-> 0]

\* std::format("{}+{}", type_name, addr)
AlternateKey(type_name, addr) == [name |-> type_name, plus |-> addr]

\* ------------------------------------------------------------------------
\* MemoryReader::map_all_addresses
\* ------------------------------------------------------------------------

\* constexpr size_t block_stride = 0x1000
block_stride == 4096

NoArgs == [stride |-> 0, num_threads |-> 0, object_size |-> 0]
NoProgress == [current_region |-> 0, addr |-> 0]

\* No scan is running.
ScanIdle ==
    /\ args = NoArgs
    /\ current_offset = 0
    /\ thr = << >>
    /\ mainpc = "idle"
    /\ progress = NoProgress
    /\ calls = << >>

\* all_regions(): the (start, size) pairs in map order.
all_regions == regions_by_mapped

RECURSIVE SumSizes(_, _)
SumSizes(rl, k) == IF k = 0 THEN 0 ELSE U(SumSizes(rl, k - 1) + rl[k].size)

\* region_start_offsets[k], k in 0 .. regions.size()
region_start_offsets(k) == SumSizes(all_regions, k)

region_count == Len(all_regions)

\* region_start_offsets.back()
total_offsets == region_start_offsets(region_count)

\* regions[k] of the scanner, k counted from 0 as in the source.
regions(k) == all_regions[k + 1]

Threads == 0 .. (args.num_threads - 1)

ThreadInit == [pc |-> "unborn", offset |-> 0, current_region |-> 0, z |-> 0]

\* region_start_offsets[current_region + 1] - object_size, in size_t
scan_limit(current_region) ==
    U(region_start_offsets(current_region + 1) - args.object_size)

\* The inner while loop of thread_fn: the first region index cr >= from with
\* offset < region_start_offsets[cr + 1].
advance_region(from, offset) ==
    SetMin({ cr \in from .. (region_count - 1) : offset < region_start_offsets(cr + 1) })

\* addr.offset_bytes(z): the address handed to fn for offset z of the block.
scan_addr(t, z) ==
    LET cr == thr[t].current_region
        offset_within_region == U(thr[t].offset - region_start_offsets(cr))
    IN  offset_bytes(offset_bytes(regions(cr).addr, offset_within_region), z)

\* region_rs[current_region].pget<T>(offset_within_region + z) stays inside
\* the region's bytes.
pget_in_range(t, z) ==
    LET cr == thr[t].current_region
        offset_within_region == U(thr[t].offset - region_start_offsets(cr))
    IN  offset_within_region + z + args.object_size <= regions(cr).size

\* The two argument checks at the head of map_all_addresses.
stride_accepted(stride) ==
    /\ BitAnd(stride, U(stride - 1)) = 0
    /\ ~(stride > block_stride)

\* The main thread enters map_all_addresses: argument checks, then the
\* region tables and the counter.
ScanEnter ==
    /\ mainpc = "call"
    /\ IF stride_accepted(args.stride)
       THEN /\ mainpc' = "spawn"
            /\ current_offset' = 0
            /\ thr' = [t \in Threads |-> ThreadInit]
       ELSE /\ mainpc' = "logic_error"
            /\ UNCHANGED << current_offset, thr >>
    /\ UNCHANGED << snapVars, moreVars, graphVars, readerVars, args, progress, calls, termVars, catVars,
                    shellVars >>

\* threads.emplace_back(thread_fn, thread_index) for every index: the
\* threads exist and have not yet run; the main thread goes on to the
\* progress loop.
ScanSpawn ==
    /\ mainpc = "spawn"
    /\ thr' = [t \in Threads |-> [thr[t] EXCEPT !.pc = "fetch"]]
    /\ mainpc' = "progress"
    /\ UNCHANGED << snapVars, moreVars, graphVars, readerVars, args, current_offset, progress, calls, termVars,
                    catVars, shellVars >>

ScanRunning == mainpc \in {"progress", "join"}

\* while ((offset = current_offset.fetch_add(block_stride)) < back) { ... }
\* up to the test that guards the for loop.
ThreadFetch(t) ==
    /\ ScanRunning
    /\ thr[t].pc = "fetch"
    /\ current_offset' = U(current_offset + block_stride)
    /\ LET offset == current_offset
       IN  IF offset < total_offsets
           THEN LET cr == advance_region(thr[t].current_region, offset)
                IN  thr' = [thr EXCEPT ![t] =
                              [pc |-> IF offset <= scan_limit(cr) THEN "loop" ELSE "fetch",
                               offset |-> offset, current_region |-> cr, z |-> 0]]
           ELSE thr' = [thr EXCEPT ![t].pc = "exit", ![t].offset = offset]
    /\ UNCHANGED << snapVars, moreVars, graphVars, readerVars, args, mainpc, progress, calls, termVars, catVars,
                    shellVars >>

\* The for loop's tests: z < block_stride and the break.
loop_continues(t, z) ==
    /\ z < block_stride
    /\ ~(U(thr[t].offset + z) > scan_limit(thr[t].current_region))

BagAdd(b, x) ==
    IF x \in DOMAIN b THEN [b EXCEPT ![x] = b[x] + 1]
    ELSE [y \in DOMAIN b \cup {x} |-> IF y = x THEN 1 ELSE b[y]]

BagCount(b, x) == IF x \in DOMAIN b THEN b[x] ELSE 0

\* The tests a query's predicate makes before it takes any lock: they read
\* the object's bytes, the query's arguments and the catalog (for
\* aggregate-strings also the try block that obtains data_size).
pred_filter(addr) ==
    LET obj == object_at(addr)
    IN  CASE cmd.name = "find_base_type" ->
                 ~((obj.ob_type # addr) \/ obj.invalid \/ (obj.name # "type"))
          [] cmd.name = "find_all_types" ->
                 ~((obj.ob_type # env.base_type_object) \/ obj.invalid)
          [] cmd.name = "find_all_objects" ->
                 /\ ~((obj.ob_type # cmd.type_addr) \/ obj.invalid)
                 /\ (cmd.count_only \/ obj.repr_valid)
          [] cmd.name = "count_by_type" ->
                 /\ \E k \in DOMAIN env.type_objects : env.type_objects[k] = obj.ob_type
                 /\ ~obj.invalid
          [] cmd.name = "aggregate_strings" ->
                 /\ ~((obj.ob_type # cmd.type_addr) \/ obj.invalid)
                 /\ obj.decodable
          [] cmd.name = "find_module" ->
                 ~((obj.ob_type # cmd.type_addr) \/ obj.invalid)
          [] cmd.name = "find" ->
                 addr \in DOMAIN heap /\ heap[addr].value = cmd.target_value
          [] OTHER -> TRUE

\* A write of one thread to stdout/stderr, with the lock's holder at that time.
write(writer, kind) ==
    [writer |-> writer, kind |-> kind, holder |-> output_lock,
     during |-> { t \in DOMAIN thr : thr[t].pc = "emit2" }, in_scan |-> ScanRunning]

\* sizeof(PyDictObject)
sizeof_PyDictObject == 48

\* find-module's predicate after its first test, for a candidate at addr:
\* r.get of the pointer at addr + 0x10 and r.get of the dict it names (each a
\* read, which throws std::out_of_range outside the snapshot; neither lies
\* in a try block), the dict's type and validity, the lookup of __name__
\* (std::out_of_range is caught there), the comparison and the repr.
find_module_outcome(addr) ==
    LET slot == read(offset_bytes(addr, 16), 8)
        dict_addr == heap[addr].md_dict
        dict_obj == object_at(dict_addr)
    IN  IF ~slot.ok THEN "out_of_range"
        ELSE IF ~read(dict_addr, sizeof_PyDictObject).ok THEN "out_of_range"
        ELSE IF dict_obj.ob_type # cmd.dict_type THEN "return"
        ELSE IF dict_obj.invalid THEN "return"
        ELSE IF dict_obj.name_value = "" THEN "return"
        ELSE IF dict_obj.name_value # cmd.module_name THEN "return"
        ELSE IF ~heap[addr].repr_valid THEN "return"
        ELSE "found"

\* The values of z at which the for loop of thread t, resumed at thr[t].z,
\* calls fn on an object that passes the predicate's tests.  An address that
\* holds no object fails every test, so only the addresses of heap count.
hit_zs(t) ==
    { z \in { bytes_until(scan_addr(t, 0), a) : a \in { x \in DOMAIN heap : pred_filter(x) } } :
        /\ z >= thr[t].z
        /\ IF args.stride = 0 THEN z = thr[t].z ELSE z % args.stride = 0
        /\ loop_continues(t, z)
        /\ pget_in_range(t, z) }

\* The first z of the resumed loop whose pget reaches past the region's
\* bytes, if the loop gets there: pget_in_range fails from some z upwards.
unreadable_zs(t) ==
    LET cr == thr[t].current_region
        offset_within_region == U(thr[t].offset - region_start_offsets(cr))
        room == regions(cr).size - offset_within_region - args.object_size
        z == IF ~pget_in_range(t, thr[t].z) \/ args.stride = 0 THEN thr[t].z
             ELSE ((room + args.stride) \div args.stride) * args.stride
    IN  IF loop_continues(t, z) /\ ~pget_in_range(t, z) THEN {z} ELSE {}

\* The for loop of thread_fn from the current z up to the next call of fn
\* that does not return at once, or to the loop's end.  A pget past the
\* region's bytes either throws inside the worker (std::terminate) or hands
\* fn whatever lies there.  With stride 0, z += stride leaves z where it is:
\* the loop neither reaches block_stride nor the break and never ends.
ThreadLoop(t) ==
    /\ ScanRunning
    /\ thr[t].pc = "loop"
    /\ LET stops == IF cmd.name = "record"
                    THEN { z \in {thr[t].z} : loop_continues(t, z) }
                    ELSE hit_zs(t) \cup unreadable_zs(t)
       IN  IF stops = {}
           THEN /\ thr' = IF args.stride = 0 /\ loop_continues(t, thr[t].z)
                          THEN thr
                          ELSE [thr EXCEPT ![t].pc = "fetch"]
                /\ UNCHANGED << mainpc, calls, result_count >>
           ELSE LET z == SetMin(stops)
                IN  \/ /\ cmd.name = "record"
                       /\ calls' = BagAdd(calls, scan_addr(t, z))
                       /\ thr' = [thr EXCEPT ![t].z = z + args.stride]
                       /\ UNCHANGED << mainpc, result_count >>
                    \/ /\ cmd.name \in {"find_all_objects", "find"} /\ pget_in_range(t, z)
                       /\ result_count' = result_count + 1
                       /\ thr' = IF cmd.count_only
                                 THEN [thr EXCEPT ![t].z = z + args.stride]
                                 ELSE [thr EXCEPT ![t].z = z, ![t].pc = "pred"]
                       /\ UNCHANGED << mainpc, calls >>
                    \/ /\ cmd.name \in {"find_base_type", "find_all_types"}
                       /\ pget_in_range(t, z)
                       /\ thr' = [thr EXCEPT ![t].z = z, ![t].pc = "pred"]
                       /\ UNCHANGED << mainpc, calls, result_count >>
                    \/ /\ cmd.name = "aggregate_strings" /\ pget_in_range(t, z)
                       /\ calls' = BagAdd(calls, scan_addr(t, z))
                       /\ thr' = [thr EXCEPT ![t].z = z, ![t].pc = "pred"]
                       /\ UNCHANGED << mainpc, result_count >>
                    \/ /\ cmd.name = "find_module" /\ pget_in_range(t, z)
                       /\ calls' = BagAdd(calls, scan_addr(t, z))
                       /\ LET outcome == find_module_outcome(scan_addr(t, z))
                          IN  CASE outcome = "out_of_range" ->
                                     /\ mainpc' = "terminated"
                                     /\ UNCHANGED << thr, result_count >>
                                [] outcome = "return" ->
                                     /\ thr' = [thr EXCEPT ![t].z = z + args.stride]
                                     /\ UNCHANGED << mainpc, result_count >>
                                [] OTHER ->
                                     /\ result_count' = result_count + 1
                                     /\ thr' = [thr EXCEPT ![t].z = z, ![t].pc = "pred"]
                                     /\ UNCHANGED mainpc
                    \/ /\ cmd.name # "record" /\ ~pget_in_range(t, z)
                       /\ thr' = [thr EXCEPT ![t].z = z + args.stride]
                       /\ UNCHANGED << mainpc, calls, result_count >>
                    \/ /\ ~pget_in_range(t, z)
                       /\ mainpc' = "terminated"
                       /\ UNCHANGED << thr, calls, result_count >>
    /\ UNCHANGED << snapVars, moreVars, graphVars, readerVars, args, current_offset, progress, termVars, env,
                    saved, candidates, any_env_changes_made, catalog_write, first_catalog,
                    shellVars >>

\* std::mutex::lock returns only when no thread holds the mutex.
lock_available == output_lock = NoThread

\* std::lock_guard<std::mutex> g(output_lock) in a predicate.
PredLock(t) ==
    /\ ScanRunning
    /\ thr[t].pc = "pred"
    /\ lock_available
    /\ output_lock' = t
    /\ thr' = [thr EXCEPT ![t].pc = "crit"]
    /\ UNCHANGED << snapVars, moreVars, graphVars, readerVars, args, current_offset, mainpc, progress, calls,
                    term, catVars, shellVars >>

\* The statements of a predicate under the lock, up to its first write to the
\* terminal; find_base_type_object and find_all_type_objects then return
\* (the guard releases the lock), find-all-objects goes on to its second write.
PredCrit(t) ==
    /\ ScanRunning
    /\ thr[t].pc = "crit"
    /\ cmd.name # "aggregate_strings"
    /\ LET addr == scan_addr(t, thr[t].z)
           type_name == object_at(addr).name
           done == [thr EXCEPT ![t].pc = "loop", ![t].z = thr[t].z + args.stride]
       IN  CASE cmd.name = "find_base_type" ->
                  /\ term' = write(t, "candidate")
                  /\ candidates' = Append(candidates, addr)
                  /\ output_lock' = NoThread
                  /\ thr' = done
                  /\ UNCHANGED << env, any_env_changes_made, catalog_write >>
             [] cmd.name = "find_all_types" ->
                  /\ env' = [env EXCEPT !.type_objects =
                        IF PlainKey(type_name) \notin DOMAIN env.type_objects
                        THEN emplace(env.type_objects, PlainKey(type_name), addr)
                        ELSE IF env.type_objects[PlainKey(type_name)] # addr
                        THEN emplace(env.type_objects, AlternateKey(type_name, addr), addr)
                        ELSE env.type_objects]
                  /\ any_env_changes_made' =
                        (any_env_changes_made
                            \/ PlainKey(type_name) \notin DOMAIN env.type_objects)
                  /\ term' = IF PlainKey(type_name) \notin DOMAIN env.type_objects
                             THEN write(t, "found")
                             ELSE IF env.type_objects[PlainKey(type_name)] # addr
                             THEN write(t, "warning")
                             ELSE term
                  /\ catalog_write' = [writer |-> t, in_scan |-> ScanRunning,
                                       holder |-> output_lock]
                  /\ output_lock' = NoThread
                  /\ thr' = done
                  /\ UNCHANGED candidates
             [] cmd.name = "find" ->
                  /\ term' = write(t, "data_found")
                  /\ output_lock' = NoThread
                  /\ thr' = done
                  /\ UNCHANGED << env, candidates, any_env_changes_made, catalog_write >>
             [] OTHER ->
                  /\ term' = write(t, "clear_line")
                  /\ thr' = [thr EXCEPT ![t].pc = "emit2"]
                  /\ UNCHANGED << output_lock, env, candidates, any_env_changes_made,
                                  catalog_write >>
    /\ UNCHANGED << snapVars, moreVars, graphVars, readerVars, args, current_offset, mainpc, progress, calls,
                    saved, result_count, first_catalog, shellVars >>

\* find-all-objects: fwrite_fmt(stdout, "{}\n", repr), then the guard
\* releases the lock.
PredEmit2(t) ==
    /\ ScanRunning
    /\ thr[t].pc = "emit2"
    /\ term' = write(t, "repr")
    /\ output_lock' = NoThread
    /\ thr' = [thr EXCEPT ![t].pc = "loop", ![t].z = thr[t].z + args.stride]
    /\ UNCHANGED << snapVars, moreVars, graphVars, readerVars, args, current_offset, mainpc, progress, calls,
                    catVars, shellVars >>

\* The progress loop of the main thread: load the counter; while it is below
\* the total, advance progress_current_region, build the line and write it
\* to stderr (no lock is taken); otherwise go on to join.  regions[k] with
\* k = regions.size() is a read past the vector's end: any value.
GarbageAddrs == { 0, AddrMod - 1 }

ScanProgress ==
    /\ mainpc = "progress"
    /\ LET progress_current_offset == current_offset
       IN  IF progress_current_offset < total_offsets
           THEN LET pcr == SetMin({ k \in progress.current_region .. region_count :
                                     ~(progress_current_offset >= region_start_offsets(k)) })
                IN  /\ \E base \in (IF pcr < region_count THEN { regions(pcr).addr }
                                                           ELSE GarbageAddrs) :
                          progress' = [current_region |-> pcr,
                                       addr |-> offset_bytes(base,
                                                   U(progress_current_offset
                                                       - region_start_offsets(pcr)))]
                    /\ term' = write(MainThread, "progress")
                    /\ mainpc' = mainpc
           ELSE /\ mainpc' = "join"
                /\ UNCHANGED << progress, term >>
    /\ UNCHANGED << snapVars, moreVars, graphVars, readerVars, args, current_offset, thr, calls, output_lock,
                    catVars, shellVars >>

\* for (auto& t : threads) t.join(); then map_all_addresses returns.
ScanJoin ==
    /\ mainpc = "join"
    /\ \A t \in Threads : thr[t].pc = "exit"
    /\ mainpc' = "returned"
    /\ UNCHANGED << snapVars, moreVars, graphVars, readerVars, args, current_offset, thr, progress, calls,
                    termVars, catVars, shellVars >>

\* ------------------------------------------------------------------------
\* AnalysisShell::prepare, find_base_type_object and find_all_type_objects
\* ------------------------------------------------------------------------

\* A variant of the test below that accepts any non-empty list.
single_candidate_MutantAtLeastOne(c) == Len(c) >= 1

\* if (candidates.size() == 1)
single_candidate(c) == Len(c) = 1

\* The locals of a map_all_addresses call are gone once it has returned.
ScanReset ==
    /\ args' = NoArgs
    /\ current_offset' = 0
    /\ thr' = << >>
    /\ mainpc' = "idle"
    /\ progress' = NoProgress

\* The call env.r.map_all_addresses<T>(fn, 8, max_threads) of a query.
ScanCall(query, object_size) ==
    /\ cmd' = query
    /\ args' = [stride |-> 8, num_threads |-> shell.max_threads, object_size |-> object_size]
    /\ mainpc' = "call"
    /\ UNCHANGED << current_offset, thr, progress >>

\* prepare(), first test: with no base type object, announce the search and
\* enter find_base_type_object up to its call of map_all_addresses.
PrepareFindBase ==
    /\ shell.pc = "prepare"
    /\ mainpc = "idle"
    /\ IF env.base_type_object = 0
       THEN /\ term' = write(MainThread, "notice")
            /\ candidates' = << >>
            /\ ScanCall([NoCmd EXCEPT !.name = "find_base_type"], sizeof_PyTypeObject)
            /\ shell' = [shell EXCEPT !.pc = "find_base_type"]
       ELSE /\ shell' = [shell EXCEPT !.pc = "prepare2"]
            /\ UNCHANGED << term, candidates, cmd, scanVars >>
    /\ UNCHANGED << snapVars, moreVars, graphVars, readerVars, calls, output_lock, env, saved,
                    any_env_changes_made, result_count, catalog_write, first_catalog >>

\* find_base_type_object after the scan: the newline, then the test on the
\* number of candidates.
FindBaseFinish ==
    /\ shell.pc = "find_base_type"
    /\ mainpc = "returned"
    /\ term' = write(MainThread, "newline")
    /\ IF single_candidate(candidates)
       THEN /\ env' = [env EXCEPT !.base_type_object = candidates[1]]
            /\ saved' = save_analysis(env')
            /\ catalog_write' = [writer |-> MainThread, in_scan |-> ScanRunning,
                                 holder |-> output_lock]
       ELSE UNCHANGED << env, saved, catalog_write >>
    /\ ScanReset
    /\ shell' = [shell EXCEPT !.pc = "prepare2"]
    /\ UNCHANGED << snapVars, moreVars, graphVars, readerVars, calls, output_lock, cmd, candidates,
                    any_env_changes_made, result_count, first_catalog >>

\* prepare(), second test: give up without a base type object; with one and
\* no type objects, announce the search and call find_all_type_objects.
PrepareFindAllTypes ==
    /\ shell.pc = "prepare2"
    /\ mainpc = "idle"
    /\ IF env.base_type_object = 0
       THEN /\ term' = write(MainThread, "failed")
            /\ shell' = [shell EXCEPT !.pc = "prompt"]
       ELSE IF env.type_objects = << >>
       THEN /\ term' = write(MainThread, "notice")
            /\ shell' = [shell EXCEPT !.pc = "find_all_type_objects"]
       ELSE /\ shell' = [shell EXCEPT !.pc = "prompt"]
            /\ term' = term
    /\ UNCHANGED << snapVars, moreVars, graphVars, readerVars, calls, output_lock, saved, candidates,
                    result_count, first_catalog, env, any_env_changes_made, catalog_write,
                    cmd, scanVars >>

\* A variant of the test below that never finds the base type missing.
base_type_missing_MutantNever(e) == FALSE

\* env.base_type_object.is_null()
base_type_missing(e) == e.base_type_object = 0

\* find_all_type_objects up to its call of map_all_addresses: without a base
\* type object it throws std::runtime_error("Base type object not found; run
\* find-base-type first") to its caller; otherwise it clears type_objects
\* and starts the scan.
FindAllTypesEnter ==
    /\ shell.pc = "find_all_type_objects"
    /\ mainpc = "idle"
    /\ IF base_type_missing(env)
       THEN /\ shell' = [shell EXCEPT !.pc = "runtime_error"]
            /\ UNCHANGED << env, any_env_changes_made, catalog_write, cmd, scanVars >>
       ELSE /\ env' = [env EXCEPT !.type_objects = << >>]
            /\ catalog_write' = [writer |-> MainThread, in_scan |-> ScanRunning,
                                 holder |-> output_lock]
            /\ any_env_changes_made' = FALSE
            /\ ScanCall([NoCmd EXCEPT !.name = "find_all_types"], sizeof_PyTypeObject)
            /\ shell' = [shell EXCEPT !.pc = "find_all_types"]
    /\ UNCHANGED << snapVars, moreVars, graphVars, readerVars, calls, termVars, saved, candidates,
                    result_count, first_catalog >>

\* find_all_type_objects after the scan: the newline, then save_analysis if
\* anything was inserted.
FindAllTypesFinish ==
    /\ shell.pc = "find_all_types"
    /\ mainpc = "returned"
    /\ term' = write(MainThread, "newline")
    /\ saved' = IF any_env_changes_made THEN save_analysis(env) ELSE saved
    /\ ScanReset
    /\ shell' = [shell EXCEPT !.pc = "prompt"]
    /\ UNCHANGED << snapVars, moreVars, graphVars, readerVars, calls, output_lock, cmd, env, candidates,
                    any_env_changes_made, result_count, catalog_write, first_catalog >>

\* The session ends at the prompt; the snapshot is opened again with no
\* analysis data next to it, and AnalysisShell::run calls prepare() again.
NewSession ==
    /\ shell.pc = "prompt"
    /\ shell.session = 1
    /\ first_catalog' = env.type_objects
    /\ env' = NullEnv
    /\ saved' = NotSaved
    /\ candidates' = << >>
    /\ any_env_changes_made' = FALSE
    /\ catalog_write' = NoCatalogWrite
    /\ term' = NoWrite
    /\ cmd' = NoCmd
    /\ shell' = [shell EXCEPT !.pc = "prepare", !.session = 2]
    /\ UNCHANGED << snapVars, moreVars, graphVars, readerVars, scanVars, calls, output_lock, result_count >>

\* ------------------------------------------------------------------------
\* Specification SpecBoot: a session that builds the catalog from nothing,
\* for each snapshot and thread count.
\* ------------------------------------------------------------------------

\* The --threads values the sessions are started with.
ThreadCounts == { 1, 2 }

BootRegionLists == { << Rgn(4096, 8192) >>, << Rgn(4096, 4096), Rgn(16384, 4096) >> }

\* Addresses of the snapshot that may hold a type object: two in the first
\* block of the first region, one in the last block of the last region.
Slots(rl) ==
    { rl[1].addr + 64, rl[1].addr + 192,
      rl[Len(rl)].addr + rl[Len(rl)].size - block_stride + 64 }

\* What a slot at address a may hold: nothing, a self-typed object named
\* "type" (valid or not), or a valid object named "Foo" typed by any slot.
ObjectValues(slots, a) ==
    {NoObject}
        \cup [ob_type : {a}, invalid : BOOLEAN, name : {"type"}, repr_valid : {TRUE}]
        \cup [ob_type : slots, invalid : {FALSE}, name : {"Foo"}, repr_valid : {TRUE}]

Heaps(slots) == { h \in [slots -> UNION { ObjectValues(slots, a) : a \in slots }] :
                    \A a \in slots : h[a] \in ObjectValues(slots, a) }

InitBoot ==
    /\ regions_by_mapped \in BootRegionLists
    /\ heap \in Heaps(Slots(regions_by_mapped))
    /\ ReaderIdle
    /\ GraphIdle
    /\ ScanIdle
    /\ TermIdle
    /\ MoreIdle
    /\ CatIdle
    /\ shell \in [pc : {"prepare"}, max_threads : ThreadCounts, session : {1}]
    /\ cmd = NoCmd

NextBoot ==
    \/ PrepareFindBase
    \/ ScanEnter
    \/ ScanSpawn
    \/ \E t \in Threads : ThreadFetch(t)
    \/ \E t \in Threads : ThreadLoop(t)
    \/ \E t \in Threads : PredLock(t)
    \/ \E t \in Threads : PredCrit(t)
    \/ ScanProgress
    \/ ScanJoin
    \/ FindBaseFinish
    \/ PrepareFindAllTypes
    \/ FindAllTypesEnter
    \/ FindAllTypesFinish

\* ------------------------------------------------------------------------
\* Specification SpecTypes: prepare() of a session whose analysis data was
\* loaded from the catalog file, and find_all_type_objects called on its own,
\* for each loaded catalog: with and without a base type object, with and
\* without type objects.
\* ------------------------------------------------------------------------

TypesRegions == << Rgn(4096, 4096), Rgn(16384, 4096) >>

\* The base type object at the first slot (or nothing there), any object at
\* the second, nothing at the third.
TypesHeaps ==
    { h \in Heaps(Slots(TypesRegions)) :
        /\ h[TypesRegions[1].addr + 64] \in
              { NoObject, [ob_type |-> TypesRegions[1].addr + 64, invalid |-> FALSE,
                           name |-> "type", repr_valid |-> TRUE] }
        /\ h[TypesRegions[2].addr + 64] = NoObject }

\* What Environment's constructor may load from the catalog file.
LoadedEnvs ==
    [base_type_object : {0, TypesRegions[1].addr + 64},
     type_objects : { << >>,
                      [k \in {PlainKey("Foo")} |-> TypesRegions[1].addr + 192] }]

InitTypes ==
    /\ regions_by_mapped = TypesRegions
    /\ heap \in TypesHeaps
    /\ ReaderIdle
    /\ GraphIdle
    /\ ScanIdle
    /\ TermIdle
    /\ MoreIdle
    /\ env \in LoadedEnvs
    /\ saved = IF env = NullEnv THEN NotSaved ELSE save_analysis(env)
    /\ candidates = << >>
    /\ any_env_changes_made = FALSE
    /\ result_count = 0
    /\ catalog_write = NoCatalogWrite
    /\ first_catalog = << >>
    /\ shell \in [pc : {"prepare", "find_all_type_objects"}, max_threads : ThreadCounts,
                  session : {1}]
    /\ cmd = NoCmd

\* ------------------------------------------------------------------------
\* Specification SpecRebuild: two sessions on one snapshot, each building the
\* catalog from nothing.
\* ------------------------------------------------------------------------

InitRebuild ==
    /\ regions_by_mapped = << Rgn(4096, 4096), Rgn(16384, 4096) >>
    /\ heap \in Heaps(Slots(regions_by_mapped))
    /\ ReaderIdle
    /\ GraphIdle
    /\ ScanIdle
    /\ TermIdle
    /\ MoreIdle
    /\ CatIdle
    /\ shell \in [pc : {"prepare"}, max_threads : ThreadCounts, session : {1}]
    /\ cmd = NoCmd

NextRebuild ==
    \/ PrepareFindBase
    \/ ScanEnter
    \/ ScanSpawn
    \/ \E t \in Threads : ThreadFetch(t)
    \/ \E t \in Threads : ThreadLoop(t)
    \/ \E t \in Threads : PredLock(t)
    \/ \E t \in Threads : PredCrit(t)
    \/ ScanProgress
    \/ ScanJoin
    \/ FindBaseFinish
    \/ PrepareFindAllTypes
    \/ FindAllTypesEnter
    \/ FindAllTypesFinish
    \/ NewSession

\* ------------------------------------------------------------------------
\* The find-all-objects command
\* ------------------------------------------------------------------------

\* The command up to its call of map_all_addresses: --type-addr, or else
\* the catalog entry of --type-name (at() throws for a missing name and
\* AnalysisShell::run reports the error), --count, and the two locals.
FindAllObjectsStart ==
    /\ shell.pc = "prompt"
    /\ mainpc = "idle"
    /\ \E type_addr_arg \in {0, env.type_objects[PlainKey("Foo")]}, type_name \in {"", "Foo"},
          count_only \in BOOLEAN :
          IF type_addr_arg = 0 /\ PlainKey(type_name) \notin DOMAIN env.type_objects
          THEN /\ term' = write(MainThread, "error")
               /\ UNCHANGED << scanVars, cmd, shell, result_count >>
          ELSE /\ result_count' = 0
               /\ ScanCall([name |-> "find_all_objects",
                            type_addr |-> IF type_addr_arg = 0
                                          THEN env.type_objects[PlainKey(type_name)]
                                          ELSE type_addr_arg,
                            count_only |-> count_only], sizeof_PyObject)
               /\ shell' = [shell EXCEPT !.pc = "find_all_objects"]
               /\ term' = term
    /\ UNCHANGED << snapVars, moreVars, graphVars, readerVars, calls, output_lock, env, saved, candidates,
                    any_env_changes_made, catalog_write, first_catalog >>

\* What a find-all-objects command was asked: the type selected and --count.
ReportKey(c) == [type_addr |-> c.type_addr, count_only |-> c.count_only]

\* After the scan: fwrite_fmt(stderr, CLEAR_LINE "{} objects found\n", ...),
\* the number is kept per question asked,
\* and the shell is back at its prompt.
FindAllObjectsFinish ==
    /\ shell.pc = "find_all_objects"
    /\ mainpc = "returned"
    /\ term' = write(MainThread, "summary")
    /\ reports' = [k \in DOMAIN reports \cup {ReportKey(cmd)} |->
                        IF k = ReportKey(cmd) THEN result_count ELSE reports[k]]
    /\ ScanReset
    /\ shell' = [shell EXCEPT !.pc = "prompt"]
    /\ UNCHANGED << snapVars, stackVars, tallyVars, reprVars, decVars, dumpVars, loopVars, graphVars,
                    readerVars, calls, output_lock, cmd, catVars >>

\* ------------------------------------------------------------------------
\* Specification SpecFind: find-all-objects commands in a session whose
\* catalog holds the base type and the type Foo.
\* ------------------------------------------------------------------------

FindRegions == << Rgn(4096, 4096), Rgn(16384, 4096) >>

\* The two type objects of the snapshot and the addresses that may hold an
\* instance: two in the first block, one in the second.
BaseTypeAddr == FindRegions[1].addr + 64
FooTypeAddr == FindRegions[1].addr + 192
InstanceSlots == { FindRegions[1].addr + 512, FindRegions[1].addr + 528,
                   FindRegions[2].addr + 64 }

TypeObject(type_name) ==
    [ob_type |-> BaseTypeAddr, invalid |-> FALSE, name |-> type_name, repr_valid |-> TRUE]

InstanceValues ==
    {NoObject}
        \cup [ob_type : {FooTypeAddr}, invalid : {FALSE}, name : {""}, repr_valid : BOOLEAN]
        \cup [ob_type : {FooTypeAddr}, invalid : {TRUE}, name : {""}, repr_valid : {FALSE}]

FindHeaps ==
    { [a \in InstanceSlots \cup {BaseTypeAddr, FooTypeAddr} |->
          IF a = BaseTypeAddr THEN TypeObject("type")
          ELSE IF a = FooTypeAddr THEN TypeObject("Foo")
          ELSE h[a]] : h \in [InstanceSlots -> InstanceValues] }

\* The catalog the bootstrap builds for these heaps.
FindEnv ==
    [base_type_object |-> BaseTypeAddr,
     type_objects |-> [k \in {PlainKey("type"), PlainKey("Foo")} |->
                          IF k.name = "type" THEN BaseTypeAddr ELSE FooTypeAddr]]

InitFind ==
    /\ regions_by_mapped = FindRegions
    /\ heap \in FindHeaps
    /\ ReaderIdle
    /\ GraphIdle
    /\ ScanIdle
    /\ TermIdle
    /\ MoreIdle
    /\ env = FindEnv
    /\ saved = save_analysis(FindEnv)
    /\ candidates = << >>
    /\ any_env_changes_made = FALSE
    /\ result_count = 0
    /\ catalog_write = NoCatalogWrite
    /\ first_catalog = << >>
    /\ shell \in [pc : {"prompt"}, max_threads : ThreadCounts, session : {1}]
    /\ cmd = NoCmd

NextFind ==
    \/ FindAllObjectsStart
    \/ ScanEnter
    \/ ScanSpawn
    \/ \E t \in Threads : ThreadFetch(t)
    \/ \E t \in Threads : ThreadLoop(t)
    \/ \E t \in Threads : PredLock(t)
    \/ \E t \in Threads : PredCrit(t)
    \/ \E t \in Threads : PredEmit2(t)
    \/ ScanProgress
    \/ ScanJoin
    \/ FindAllObjectsFinish

\* ------------------------------------------------------------------------
\* The find-module command
\* ------------------------------------------------------------------------

\* find-module NAME: get_type("module") throws when the catalog has no such
\* type (the shell reports it); otherwise the scan starts.
FindModuleStart ==
    /\ shell.pc = "prompt"
    /\ mainpc = "idle"
    /\ \E module_name \in {"sys"} :
          IF PlainKey("module") \notin DOMAIN env.type_objects
          THEN /\ term' = write(MainThread, "error")
               /\ UNCHANGED << scanVars, cmd, shell, result_count >>
          ELSE /\ result_count' = 0
               /\ ScanCall([name |-> "find_module",
                            type_addr |-> env.type_objects[PlainKey("module")],
                            count_only |-> FALSE,
                            dict_type |-> IF PlainKey("dict") \in DOMAIN env.type_objects
                                          THEN env.type_objects[PlainKey("dict")] ELSE 0,
                            module_name |-> module_name], sizeof_PyObject)
               /\ shell' = [shell EXCEPT !.pc = "find_module"]
               /\ term' = term
    /\ calls' = << >>
    /\ UNCHANGED << snapVars, moreVars, graphVars, readerVars, output_lock, env, saved, candidates,
                    any_env_changes_made, catalog_write, first_catalog >>

\* After the scan: fwrite_fmt(stderr, CLEAR_LINE "{} modules found\n", ...).
FindModuleFinish ==
    /\ shell.pc = "find_module"
    /\ mainpc = "returned"
    /\ term' = write(MainThread, "summary")
    /\ ScanReset
    /\ shell' = [shell EXCEPT !.pc = "prompt"]
    /\ UNCHANGED << snapVars, moreVars, graphVars, readerVars, calls, output_lock, cmd, catVars >>

\* ------------------------------------------------------------------------
\* Specification SpecModule: find-module sys on snapshots whose catalog holds
\* the types type, module and dict, with module-typed candidates in the
\* middle of a region, in a region's last 16 bytes, and in the second region.
\* ------------------------------------------------------------------------

ModuleTypeAddr == FindRegions[1].addr + 192
DictTypeAddr == FindRegions[1].addr + 320

\* A dict of the snapshot and an object that is not a dict.
SysDictAddr == FindRegions[1].addr + 2048
NotDictAddr == FindRegions[1].addr + 1024

\* An address in no region.
UnmappedAddr == 12288

MidSlot == FindRegions[1].addr + 512
LastSlot == FindRegions[1].addr + FindRegions[1].size - sizeof_PyObject
SecondSlot == FindRegions[2].addr + 64

ModuleObject(invalid, repr_valid, md_dict) ==
    [ob_type |-> ModuleTypeAddr, invalid |-> invalid, name |-> "", repr_valid |-> repr_valid,
     md_dict |-> md_dict]

\* The bytes at a candidate slot: no module, a module whose validity check
\* fails, or a module with each kind of dict pointer.  In a region's last 16
\* bytes the pointer at offset 16 is not part of the snapshot.
ModuleValues(a) ==
    IF a = LastSlot THEN { NoObject, ModuleObject(FALSE, TRUE, 0) }
    ELSE IF a = SecondSlot THEN { NoObject, ModuleObject(FALSE, TRUE, SysDictAddr) }
    ELSE { ModuleObject(TRUE, FALSE, SysDictAddr), ModuleObject(FALSE, FALSE, SysDictAddr) }
            \cup { ModuleObject(FALSE, TRUE, d) : d \in {0, UnmappedAddr, NotDictAddr, SysDictAddr} }

DictValues ==
    [ob_type : {DictTypeAddr}, invalid : BOOLEAN, name : {""}, repr_valid : {TRUE},
     name_value : {"sys", "os", ""}]

ModuleHeaps ==
    { [a \in {BaseTypeAddr, ModuleTypeAddr, DictTypeAddr, NotDictAddr, SysDictAddr, MidSlot,
              LastSlot, SecondSlot} |->
          CASE a = BaseTypeAddr -> TypeObject("type")
            [] a = ModuleTypeAddr -> TypeObject("module")
            [] a = DictTypeAddr -> TypeObject("dict")
            [] a = NotDictAddr -> NoObject
            [] a = SysDictAddr -> d
            [] OTHER -> m[a]] :
        d \in DictValues,
        m \in { f \in [{MidSlot, LastSlot, SecondSlot} -> UNION { ModuleValues(a) : a \in {MidSlot, LastSlot, SecondSlot} }] :
                  \A a \in DOMAIN f : f[a] \in ModuleValues(a) } }

ModuleEnv ==
    [base_type_object |-> BaseTypeAddr,
     type_objects |-> [k \in {PlainKey("type"), PlainKey("module"), PlainKey("dict")} |->
                          CASE k.name = "type" -> BaseTypeAddr
                            [] k.name = "module" -> ModuleTypeAddr
                            [] OTHER -> DictTypeAddr]]

InitModule ==
    /\ regions_by_mapped = FindRegions
    /\ heap \in ModuleHeaps
    /\ ReaderIdle
    /\ GraphIdle
    /\ ScanIdle
    /\ TermIdle
    /\ MoreIdle
    /\ env = ModuleEnv
    /\ saved = save_analysis(ModuleEnv)
    /\ candidates = << >>
    /\ any_env_changes_made = FALSE
    /\ result_count = 0
    /\ catalog_write = NoCatalogWrite
    /\ first_catalog = << >>
    /\ shell \in [pc : {"prompt"}, max_threads : ThreadCounts, session : {1}]
    /\ cmd = NoCmd

NextModule ==
    \/ FindModuleStart
    \/ ScanEnter
    \/ ScanSpawn
    \/ \E t \in Threads : ThreadFetch(t)
    \/ \E t \in Threads : ThreadLoop(t)
    \/ \E t \in Threads : PredLock(t)
    \/ \E t \in Threads : PredCrit(t)
    \/ \E t \in Threads : PredEmit2(t)
    \/ ScanProgress
    \/ ScanJoin
    \/ FindModuleFinish

\* ------------------------------------------------------------------------
\* The aggregate-strings command
\* ------------------------------------------------------------------------

\* static const std::vector<size_t> size_buckets
size_buckets ==
    << 0, 1, 2, 5, 10, 20, 50, 100, 200, 500, 1000, 2000, 5000, 10000, 20000, 50000,
       100000, 200000, 500000, 1000000, 2000000, 5000000, 10000000, 20000000, 50000000,
       100000000, 200000000, 500000000, 1000000000 >>

\* Variant of the bucket search that takes the first boundary above the size.
lower_bound_MutantUpper(data_size) ==
    Cardinality({ i \in DOMAIN size_buckets : size_buckets[i] <= data_size })

\* lower_bound(size_buckets.begin(), size_buckets.end(), data_size)
\* - size_buckets.begin(): the number of boundaries below data_size.
lower_bound(data_size) ==
    Cardinality({ i \in DOMAIN size_buckets : size_buckets[i] < data_size })

\* fn_aggregate_strings up to its call of map_all_addresses.  The options
\* default to 0 when they are not given.
PrintOptions ==
    { [print_larger_than |-> 0, print_smaller_than |-> 0],
      [print_larger_than |-> 10, print_smaller_than |-> 0],
      [print_larger_than |-> 0, print_smaller_than |-> 10],
      [print_larger_than |-> 7, print_smaller_than |-> 301] }

StringsStart ==
    /\ shell.pc = "prompt"
    /\ mainpc = "idle"
    /\ \E opt \in PrintOptions :
          ScanCall([name |-> "aggregate_strings", type_addr |-> env.type_objects[PlainKey("str")],
                    count_only |-> FALSE,
                    print_larger_than |-> opt.print_larger_than,
                    print_smaller_than |-> opt.print_smaller_than], sizeof_PyObject)
    /\ histogram_data' = << >>
    /\ total_size' = 0
    /\ total_objects' = 0
    /\ printed' = << >>
    /\ entries' = << >>
    /\ calls' = << >>
    /\ shell' = [shell EXCEPT !.pc = "aggregate_strings"]
    /\ UNCHANGED << snapVars, graphVars, readerVars, stackVars, extraVars, termVars, catVars,
                    count_for_type >>

\* The predicate of fn_aggregate_strings from the bucket search on, under
\* output_lock: the histogram, the totals, the optional line; the guard
\* releases the lock.
AggCrit(t) ==
    /\ ScanRunning
    /\ thr[t].pc = "crit"
    /\ cmd.name = "aggregate_strings"
    /\ LET addr == scan_addr(t, thr[t].z)
           data_size == object_at(addr).data_size
           bucket_index == lower_bound(data_size)
           resized == IF bucket_index >= Len(histogram_data)
                      THEN histogram_data \o
                               [i \in 1 .. (bucket_index + 1 - Len(histogram_data)) |-> 0]
                      ELSE histogram_data
       IN  /\ histogram_data' = [resized EXCEPT ![bucket_index + 1] = @ + 1]
           /\ total_objects' = total_objects + 1
           /\ total_size' = total_size + data_size
           /\ IF (data_size >= cmd.print_larger_than) /\ (data_size < cmd.print_smaller_than)
              THEN /\ term' = write(t, "repr")
                   /\ printed' = BagAdd(printed, addr)
              ELSE UNCHANGED << term, printed >>
    /\ output_lock' = NoThread
    /\ thr' = [thr EXCEPT ![t].pc = "loop", ![t].z = thr[t].z + args.stride]
    /\ UNCHANGED << snapVars, graphVars, readerVars, stackVars, extraVars, args, current_offset, mainpc,
                    progress, calls, catVars, shellVars, count_for_type, entries >>

\* After the scan: the "Found ..." line and one "Length <= ..." line for
\* every element of histogram_data.
StringsFinish ==
    /\ shell.pc = "aggregate_strings"
    /\ mainpc = "returned"
    /\ term' = write(MainThread, "summary")
    /\ entries' = << [kind |-> "found", bound |-> total_size, count |-> total_objects] >>
                    \o [z \in 1 .. Len(histogram_data) |->
                          IF z <= Len(size_buckets)
                          THEN [kind |-> "length_le", bound |-> size_buckets[z],
                                count |-> histogram_data[z]]
                          ELSE [kind |-> "length_gt", bound |-> size_buckets[Len(size_buckets)],
                                count |-> histogram_data[z]]]
    /\ ScanReset
    /\ shell' = [shell EXCEPT !.pc = "prompt"]
    /\ UNCHANGED << snapVars, graphVars, readerVars, stackVars, extraVars, calls, output_lock, cmd,
                    catVars, histogram_data, total_size, total_objects, printed,
                    count_for_type >>

\* ------------------------------------------------------------------------
\* Specification SpecStrings: aggregate-strings commands in a session whose
\* catalog holds the base type and the type str.
\* ------------------------------------------------------------------------

\* A str object whose decoded data has data_size bytes.
StrObject(data_size) ==
    [ob_type |-> FooTypeAddr, invalid |-> FALSE, name |-> "", repr_valid |-> TRUE,
     data_size |-> data_size, decodable |-> TRUE]

\* What each instance address may hold: nothing, a str of one of some
\* sizes, a str whose decoding throws, or an invalid object.
StrValues(a) ==
    CASE a = FindRegions[1].addr + 512 -> { NoObject, StrObject(7), StrObject(10) }
      [] a = FindRegions[1].addr + 528 ->
             { StrObject(7), StrObject(1000000001), [StrObject(7) EXCEPT !.decodable = FALSE] }
      [] OTHER -> { StrObject(0), StrObject(300), [StrObject(7) EXCEPT !.invalid = TRUE] }

StringsHeaps ==
    { [a \in InstanceSlots \cup {BaseTypeAddr, FooTypeAddr} |->
          IF a = BaseTypeAddr THEN TypeObject("type")
          ELSE IF a = FooTypeAddr THEN TypeObject("str")
          ELSE h[a]] :
      h \in { g \in [InstanceSlots -> UNION { StrValues(a) : a \in InstanceSlots }] :
                \A a \in InstanceSlots : g[a] \in StrValues(a) } }

StringsEnv ==
    [base_type_object |-> BaseTypeAddr,
     type_objects |-> [k \in {PlainKey("type"), PlainKey("str")} |->
                          IF k.name = "type" THEN BaseTypeAddr ELSE FooTypeAddr]]

InitStrings ==
    /\ regions_by_mapped = FindRegions
    /\ heap \in StringsHeaps
    /\ ReaderIdle
    /\ GraphIdle
    /\ ScanIdle
    /\ TermIdle
    /\ MoreIdle
    /\ env = StringsEnv
    /\ saved = save_analysis(StringsEnv)
    /\ candidates = << >>
    /\ any_env_changes_made = FALSE
    /\ result_count = 0
    /\ catalog_write = NoCatalogWrite
    /\ first_catalog = << >>
    /\ shell \in [pc : {"prompt"}, max_threads : ThreadCounts, session : {1}]
    /\ cmd = NoCmd

NextStrings ==
    \/ StringsStart
    \/ ScanEnter
    \/ ScanSpawn
    \/ \E t \in Threads : ThreadFetch(t)
    \/ \E t \in Threads : ThreadLoop(t)
    \/ \E t \in Threads : PredLock(t)
    \/ \E t \in Threads : AggCrit(t)
    \/ ScanProgress
    \/ ScanJoin
    \/ StringsFinish

\* ------------------------------------------------------------------------
\* The count-by-type command (run under SpecCount from the states of InitFind)
\* ------------------------------------------------------------------------

\* name_for_type.at(type): the key of type_objects that holds the address.
name_for_type(type) ==
    CHOOSE k \in DOMAIN env.type_objects : env.type_objects[k] = type

\* Variant of the merge step that stores a thread's count over the sum.
merge_counts_MutantOverwrite(overall, thread_count_for_type) ==
    [type \in DOMAIN overall \cup DOMAIN thread_count_for_type |->
        IF type \in DOMAIN thread_count_for_type THEN thread_count_for_type[type]
        ELSE overall[type]]

\* for (const auto& [type, count] : thread_count_for_type)
\*   overall_count_for_type[type] += count;
merge_counts(overall, thread_count_for_type) ==
    [type \in DOMAIN overall \cup DOMAIN thread_count_for_type |->
        BagCount(overall, type) + BagCount(thread_count_for_type, type)]

\* The loop over count_for_type[0 .. z - 1].
RECURSIVE overall_count_for_type(_)
overall_count_for_type(z) ==
    IF z = 0 THEN << >>
    ELSE merge_counts(overall_count_for_type(z - 1), count_for_type[z - 1])

\* std::string's operator< on the names of the model's catalogs.
NameOrder == << "Foo", "str", "type" >>

\* operator< of std::tuple<size_t, std::string, MappedPtr>, or equality.
tuple_le(x, y) ==
    LET rank(k) == CHOOSE i \in DOMAIN NameOrder : NameOrder[i] = k.name
    IN  \/ x.count < y.count
        \/ /\ x.count = y.count
           /\ \/ rank(x.name) < rank(y.name)
              \/ rank(x.name) = rank(y.name) /\ x.name.plus < y.name.plus
              \/ x.name = y.name /\ x.addr <= y.addr

\* sort(entries.begin(), entries.end())
RECURSIVE sort(_)
sort(S) ==
    IF S = {} THEN << >>
    ELSE LET m == CHOOSE x \in S : \A y \in S : tuple_le(x, y)
         IN  << m >> \o sort(S \ {m})

\* c_count_by_type up to its call of map_all_addresses.
CountStart ==
    /\ shell.pc = "prompt"
    /\ mainpc = "idle"
    /\ IF env.base_type_object = 0
       THEN /\ term' = write(MainThread, "error")
            /\ UNCHANGED << scanVars, cmd, shell, count_for_type, entries, calls >>
       ELSE /\ count_for_type' = [z \in 0 .. (shell.max_threads - 1) |-> << >>]
            /\ entries' = << >>
            /\ calls' = << >>
            /\ ScanCall([NoCmd EXCEPT !.name = "count_by_type"], sizeof_PyTypeObject)
            /\ shell' = [shell EXCEPT !.pc = "count_by_type"]
            /\ term' = term
    /\ UNCHANGED << snapVars, graphVars, readerVars, stackVars, extraVars, output_lock, catVars,
                    histogram_data, total_size, total_objects, printed >>

\* The for loop of thread_fn up to a call of the predicate that passes its
\* tests, and the predicate: count_for_type[thread_index][obj.ob_type]++.
CountHit(t) ==
    /\ ScanRunning
    /\ thr[t].pc = "loop"
    /\ cmd.name = "count_by_type"
    /\ hit_zs(t) \cup unreadable_zs(t) # {}
    /\ LET z == SetMin(hit_zs(t) \cup unreadable_zs(t))
           addr == scan_addr(t, z)
       IN  /\ pget_in_range(t, z)
           /\ count_for_type' = [count_for_type EXCEPT
                                   ![t] = BagAdd(@, object_at(addr).ob_type)]
           /\ calls' = BagAdd(calls, addr)
           /\ thr' = [thr EXCEPT ![t].z = z + args.stride]
    /\ UNCHANGED << snapVars, graphVars, readerVars, stackVars, extraVars, args, current_offset, mainpc,
                    progress, termVars, catVars, shellVars, histogram_data, total_size,
                    total_objects, printed, entries >>

\* After the scan: the merge of the per-thread maps, the entries with a
\* known name, the sort, and the lines.
CountFinish ==
    /\ shell.pc = "count_by_type"
    /\ mainpc = "returned"
    /\ LET overall == overall_count_for_type(shell.max_threads)
       IN  entries' = sort({ [count |-> overall[type_addr], name |-> name_for_type(type_addr),
                              addr |-> type_addr] :
                             type_addr \in { a \in DOMAIN overall :
                                 \E k \in DOMAIN env.type_objects : env.type_objects[k] = a } })
    /\ term' = write(MainThread, "summary")
    /\ ScanReset
    /\ shell' = [shell EXCEPT !.pc = "prompt"]
    /\ UNCHANGED << snapVars, graphVars, readerVars, stackVars, extraVars, calls, output_lock, cmd,
                    catVars, histogram_data, total_size, total_objects, printed,
                    count_for_type >>

NextCount ==
    \/ CountStart
    \/ ScanEnter
    \/ ScanSpawn
    \/ \E t \in Threads : ThreadFetch(t)
    \/ \E t \in Threads : ThreadLoop(t)
    \/ \E t \in Threads : CountHit(t)
    \/ ScanProgress
    \/ ScanJoin
    \/ CountFinish

\* ------------------------------------------------------------------------
\* The async-task-graph command, from the collected graph to its output
\* ------------------------------------------------------------------------

\* Roots are all keys that are not the await target of any key.
root_addrs(g) == DOMAIN g \ UNION { g[a] : a \in DOMAIN g }

GraphRoots ==
    /\ graph_pc = "roots"
    /\ roots' = root_addrs(await_targets_for_obj)
    /\ graph_pc' = "print"
    /\ UNCHANGED << snapVars, moreVars, readerVars, scanVars, calls, termVars, catVars, shellVars,
                    await_targets_for_obj, print_stack, seen, stderr_lines >>

\* print_entry(t, addr, seen) up to its first recursive call, entered with
\* the stack stk of callers and the set s of addresses seen: nothing for a
\* null address; otherwise the line at depth t.recursion_depth, and for an
\* address not seen before either the warning or a new frame holding the
\* targets still to be iterated.
print_entry(addr, stk, s) ==
    IF addr = 0
    THEN /\ UNCHANGED << seen, stderr_lines >>
         /\ print_stack' = stk
    ELSE LET addr_seen == addr \in s
             line == [depth |-> Len(stk), kind |-> IF addr_seen THEN "seen" ELSE "repr",
                      addr |-> addr]
         IN  /\ seen' = s \cup {addr}
             /\ IF addr_seen
                THEN /\ stderr_lines' = Append(stderr_lines, line)
                     /\ print_stack' = stk
                ELSE IF addr \notin DOMAIN await_targets_for_obj
                THEN /\ stderr_lines' = stderr_lines \o
                           << line, [depth |-> 0, kind |-> "warning", addr |-> addr] >>
                     /\ print_stack' = stk
                ELSE /\ stderr_lines' = Append(stderr_lines, line)
                     /\ print_stack' = Append(stk,
                           [addr |-> addr, next_addrs |-> await_targets_for_obj[addr]])

\* for (auto addr : roots): the next root in the order of std::set, with a
\* new Traversal and an empty seen set.
GraphNextRoot ==
    /\ graph_pc = "print"
    /\ print_stack = << >>
    /\ roots # {}
    /\ roots' = roots \ {SetMin(roots)}
    /\ print_entry(SetMin(roots), << >>, {})
    /\ UNCHANGED << snapVars, moreVars, readerVars, scanVars, calls, termVars, catVars, shellVars,
                    await_targets_for_obj, graph_pc >>

\* for (auto next_addr : *next_addrs) print_entry(t, next_addr, seen): one
\* iteration in the innermost call; an unordered_set has no specified order.
GraphVisit ==
    /\ graph_pc = "print"
    /\ print_stack # << >>
    /\ LET top == print_stack[Len(print_stack)]
       IN  \E next_addr \in top.next_addrs :
              print_entry(next_addr,
                          [print_stack EXCEPT ![Len(print_stack)].next_addrs =
                                                  top.next_addrs \ {next_addr}],
                          seen)
    /\ UNCHANGED << snapVars, moreVars, readerVars, scanVars, calls, termVars, catVars, shellVars,
                    await_targets_for_obj, roots, graph_pc >>

\* The innermost call has iterated all its targets and returns.
GraphReturn ==
    /\ graph_pc = "print"
    /\ print_stack # << >>
    /\ print_stack[Len(print_stack)].next_addrs = {}
    /\ print_stack' = SubSeq(print_stack, 1, Len(print_stack) - 1)
    /\ UNCHANGED << snapVars, moreVars, readerVars, scanVars, calls, termVars, catVars, shellVars,
                    await_targets_for_obj, roots, seen, stderr_lines, graph_pc >>

\* All roots are printed: the command returns.
GraphDone ==
    /\ graph_pc = "print"
    /\ print_stack = << >>
    /\ roots = {}
    /\ graph_pc' = "done"
    /\ UNCHANGED << snapVars, moreVars, readerVars, scanVars, calls, termVars, catVars, shellVars,
                    await_targets_for_obj, roots, print_stack, seen, stderr_lines >>

\* ------------------------------------------------------------------------
\* Specification SpecGraph: the output of async-task-graph for every await
\* graph over three addresses (a task has one target, possibly null, a
\* future none, a gathering future any set) and for three larger graphs.
\* ------------------------------------------------------------------------

GraphNodes == { 16, 32, 48 }

SmallGraphs ==
    UNION { [S -> SUBSET (GraphNodes \cup {0})] : S \in (SUBSET GraphNodes) \ {{}} }

\* T1 -> G1 -> T2 -> G2 -> T3 -> G3 -> T1 at addresses 16, 32, ..., 96
Cycle6 == [a \in { 16, 32, 48, 64, 80, 96 } |-> IF a = 96 THEN {16} ELSE {a + 16}]

\* The same cycle awaited by one more task at 112.
Cycle6WithRoot == [a \in DOMAIN Cycle6 \cup {112} |-> IF a = 112 THEN {16} ELSE Cycle6[a]]

\* A gathering future at 16 awaits the tasks at 32 and 48, which both await
\* the future at 64.
Diamond == [a \in { 16, 32, 48, 64 } |->
               IF a = 16 THEN {32, 48} ELSE IF a = 64 THEN {} ELSE {64}]

InitGraph ==
    /\ regions_by_mapped = << Rgn(4096, 4096) >>
    /\ heap = << >>
    /\ ReaderIdle
    /\ ScanIdle
    /\ TermIdle
    /\ MoreIdle
    /\ CatIdle
    /\ shell = NoShell
    /\ cmd = NoCmd
    /\ await_targets_for_obj \in SmallGraphs \cup { Cycle6, Cycle6WithRoot, Diamond }
    /\ roots = {}
    /\ print_stack = << >>
    /\ seen = {}
    /\ stderr_lines = << >>
    /\ graph_pc = "roots"

NextGraph ==
    \/ GraphRoots
    \/ GraphNextRoot
    \/ GraphVisit
    \/ GraphReturn
    \/ GraphDone

\* ------------------------------------------------------------------------
\* The find-all-stacks command, from the collected frames to its output
\* ------------------------------------------------------------------------

\* Largest number of lines a find-all-stacks run writes in the model (a
\* traceback that runs into an f_back cycle has no end).
MaxTracebackLines == 9

\* Variant of the root computation that keeps every collected frame.
frame_roots_MutantAllFrames(bff) == DOMAIN bff

\* Roots are all frames that are not the f_back of any other frame.
frame_roots(bff) == DOMAIN bff \ { bff[a] : a \in DOMAIN bff }

\* The two loops over back_for_frame, then the blank line.
StacksRoots ==
    /\ stacks_pc = "roots"
    /\ roots' = frame_roots(back_for_frame)
    /\ stderr_lines' = Append(stderr_lines, [depth |-> 0, kind |-> "blank", addr |-> 0])
    /\ stacks_pc' = "trace"
    /\ UNCHANGED << snapVars, readerVars, scanVars, calls, termVars, catVars, shellVars,
                    await_targets_for_obj, print_stack, seen, graph_pc, back_for_frame,
                    walk_addr, tallyVars, extraVars >>

\* for (addr : roots): the header of the next root in the order of std::set;
\* after the last root the command returns.
StacksNextRoot ==
    /\ stacks_pc = "trace"
    /\ walk_addr = 0
    /\ IF roots = {}
       THEN /\ stacks_pc' = "done"
            /\ UNCHANGED << roots, walk_addr, stderr_lines >>
       ELSE /\ Len(stderr_lines) < MaxTracebackLines
            /\ roots' = roots \ {SetMin(roots)}
            /\ walk_addr' = SetMin(roots)
            /\ stderr_lines' = Append(stderr_lines,
                                      [depth |-> 0, kind |-> "header", addr |-> SetMin(roots)])
            /\ stacks_pc' = stacks_pc
    /\ UNCHANGED << snapVars, readerVars, scanVars, calls, termVars, catVars, shellVars,
                    await_targets_for_obj, print_stack, seen, graph_pc, back_for_frame,
                    tallyVars, extraVars >>

\* One iteration of while (!addr.is_null()): the line of t.repr(addr) at
\* recursion_depth 1, then back_for_frame.at(addr), or the warning and
\* addr = nullptr when at() throws.
StacksWalk ==
    /\ stacks_pc = "trace"
    /\ walk_addr # 0
    /\ Len(stderr_lines) < MaxTracebackLines
    /\ LET line == [depth |-> 1, kind |-> "frame", addr |-> walk_addr]
       IN  IF walk_addr \in DOMAIN back_for_frame
           THEN /\ stderr_lines' = Append(stderr_lines, line)
                /\ walk_addr' = back_for_frame[walk_addr]
           ELSE /\ stderr_lines' = stderr_lines \o
                      << line, [depth |-> 1, kind |-> "warning", addr |-> walk_addr] >>
                /\ walk_addr' = 0
    /\ UNCHANGED << snapVars, readerVars, scanVars, calls, termVars, catVars, shellVars,
                    await_targets_for_obj, roots, print_stack, seen, graph_pc,
                    back_for_frame, stacks_pc, tallyVars, extraVars >>

\* ------------------------------------------------------------------------
\* Specification SpecStacks: the output of find-all-stacks for every map
\* back_for_frame over three frame addresses and one address of no frame.
\* ------------------------------------------------------------------------

FrameNodes == { 16, 32, 48 }

\* An address at which no frame was collected.
OtherFrame == 64

BackMaps ==
    UNION { [S -> FrameNodes \cup {0, OtherFrame}] : S \in (SUBSET FrameNodes) \ {{}} }

InitStacks ==
    /\ regions_by_mapped = << Rgn(4096, 4096) >>
    /\ heap = << >>
    /\ ReaderIdle
    /\ ScanIdle
    /\ TermIdle
    /\ CatIdle
    /\ shell = NoShell
    /\ cmd = NoCmd
    /\ await_targets_for_obj = << >>
    /\ print_stack = << >>
    /\ seen = {}
    /\ graph_pc = "none"
    /\ roots = {}
    /\ stderr_lines = << >>
    /\ TallyIdle
    /\ ExtraIdle
    /\ back_for_frame \in BackMaps
    /\ walk_addr = 0
    /\ stacks_pc = "roots"

NextStacks ==
    \/ StacksRoots
    \/ StacksNextRoot
    \/ StacksWalk

\* ------------------------------------------------------------------------
\* PyDictObject::repr and PySetObject::repr under a Traversal.  A container
\* of heap is [kind, items]: the addresses its entries hold (for a dict the
\* values; its keys are strings).  An address outside heap is a scalar.
\* ------------------------------------------------------------------------

\* Traversal::recursion_allowed(): composite reprs short-circuit when
\* recursion_depth > max_recursion_depth.
recursion_allowed(tr) == ~(tr.recursion_depth > tr.max_recursion_depth)

\* The end of a repr call: back in the caller's loop, or the rendering is done.
ReprReturn(stack) == IF stack = << >> THEN "done" ELSE "items"

\* t.repr(addr) up to the loop over the items: the cycle guard and the
\* depth test, in the order of the container's kind, then t.indent().
ReprCall ==
    /\ repr_pc = "call"
    /\ LET addr == repr_call
           kind == IF addr \in DOMAIN heap THEN heap[addr].kind ELSE "scalar"
           is_recursive == addr \in trav.open
           marker == CASE kind = "dict" /\ is_recursive -> {"<dict !recursive_repr>"}
                       [] kind = "dict" /\ ~recursion_allowed(trav) -> {"<dict !recursion_depth>"}
                       [] kind = "set" /\ ~recursion_allowed(trav) -> {"<set !recursion_depth>"}
                       [] kind = "set" /\ is_recursive -> {"<set !recursive_repr>"}
                       [] OTHER -> {}
       IN  IF kind = "scalar" \/ marker # {}
           THEN /\ repr_out' = repr_out \cup marker
                /\ repr_pc' = ReprReturn(repr_stack)
                /\ UNCHANGED << trav, repr_stack >>
           ELSE /\ trav' = [trav EXCEPT !.open = @ \cup {addr}, !.recursion_depth = @ + 1]
                /\ repr_stack' = Append(repr_stack,
                                        [addr |-> addr, todo |-> heap[addr].items, n |-> 0])
                /\ repr_pc' = "items"
                /\ UNCHANGED repr_out
    /\ repr_call' = 0
    /\ UNCHANGED << snapVars, readerVars, scanVars, calls, termVars, catVars, shellVars,
                    graphVars, stackVars, tallyVars, decVars, dumpVars, loopVars, reportVars >>

\* The assembly of the text from repr_entries: whether it holds the line
\* "...".  Both reprs write it only in their last branch ("2 or more
\* entries"): a dict gets there unless size is 0, or size is 1 and
\* has_extra is false; a set gets there only with size 2 or more.
text_has_ellipsis(kind, size, has_extra) ==
    IF size = 0 THEN FALSE
    ELSE IF kind = "dict" /\ size = 1 /\ ~has_extra THEN FALSE
    ELSE IF kind = "set" /\ size = 1 THEN FALSE
    ELSE has_extra

\* One turn of the loop over the items of the innermost container: the
\* max_entries test, then t.repr of the next item; after the last item the
\* text is assembled and the scopes of indent and cycle_guard end.
ReprItems ==
    /\ repr_pc = "items"
    /\ LET top == repr_stack[Len(repr_stack)]
           rest == SubSeq(repr_stack, 1, Len(repr_stack) - 1)
           has_extra == /\ top.todo # << >>
                        /\ (trav.max_entries >= 0) /\ (top.n >= trav.max_entries)
       IN  IF top.todo = << >> \/ has_extra
           THEN /\ repr_stack' = rest
                /\ trav' = [trav EXCEPT !.open = @ \ {top.addr}, !.recursion_depth = @ - 1]
                /\ repr_out' = IF text_has_ellipsis(heap[top.addr].kind, top.n, has_extra)
                               THEN repr_out \cup {"..."}
                               ELSE repr_out
                /\ repr_pc' = ReprReturn(rest)
                /\ repr_call' = 0
           ELSE /\ repr_stack' = Append(rest, [top EXCEPT !.todo = Tail(@), !.n = @ + 1])
                /\ repr_call' = Head(top.todo)
                /\ repr_pc' = "call"
                /\ UNCHANGED << trav, repr_out >>
    /\ UNCHANGED << snapVars, readerVars, scanVars, calls, termVars, catVars, shellVars,
                    graphVars, stackVars, tallyVars, decVars, dumpVars, loopVars, reportVars >>

\* ------------------------------------------------------------------------
\* Specification SpecRepr: the repr of the container at ReprRoot for every
\* graph of two containers in which ReprRoot lies on a cycle.
\* ------------------------------------------------------------------------

ReprNodes == { 16, 32 }
ReprRoot == 16

\* An address that holds a scalar.
ScalarAddr == 48

ItemLists ==
    UNION { [1 .. n -> ReprNodes \cup {ScalarAddr}] : n \in 0 .. 2 }

\* The containers reachable from a in one or more steps.
RECURSIVE ItemsClosure(_, _)
ItemsClosure(h, S) ==
    LET next == S \cup UNION { { h[a].items[i] : i \in DOMAIN h[a].items } \cap ReprNodes : a \in S }
    IN  IF next = S THEN S ELSE ItemsClosure(h, next)

ContainerGraphs ==
    { h \in [ReprNodes -> [kind : {"dict", "set"}, items : ItemLists]] :
        ReprRoot \in ItemsClosure(h, { h[ReprRoot].items[i] : i \in DOMAIN h[ReprRoot].items }
                                        \cap ReprNodes) }

InitRepr ==
    /\ regions_by_mapped = << Rgn(4096, 4096) >>
    /\ heap \in ContainerGraphs
    /\ ReaderIdle
    /\ ScanIdle
    /\ TermIdle
    /\ CatIdle
    /\ GraphIdle
    /\ StacksIdle
    /\ TallyIdle
    /\ DecodeIdle
    /\ DumpIdle
    /\ LoopIdle
    /\ ReportIdle
    /\ shell = NoShell
    /\ cmd = NoCmd
    /\ trav \in [recursion_depth : {0}, max_recursion_depth : {0, 1, 3},
                 max_entries : {-1, 0, 1, 2}, open : {{}}]
    /\ repr_stack = << >>
    /\ repr_call = ReprRoot
    /\ repr_out = {}
    /\ repr_pc = "call"

NextRepr ==
    \/ ReprCall
    \/ ReprItems

\* ------------------------------------------------------------------------
\* The decoders of set, frame and dict objects: invalid_reason and
\* direct_referents as functions of the object's bytes.  An object of the
\* model holds the fields the decoder reads; "raised" stands for an
\* exception that leaves the function.
\* ------------------------------------------------------------------------

\* PySetObject::invalid_reason, for an object whose PyObject header is valid
\* and whose table of mask + 1 entries (keys) is readable.
PySetObject_invalid_reason(o) ==
    IF o.fill > o.mask + 1 THEN "invalid_fill"
    ELSE IF o.used > o.fill THEN "invalid_used"
    ELSE IF ~obj_valid(o.table, 8, sizeof_PyObject) THEN "invalid_table"
    ELSE IF \E i \in DOMAIN o.keys : ~obj_valid_or_null(o.keys[i], 8, sizeof_PyObject)
    THEN "invalid_entry"
    ELSE "ok"

\* PySetObject::direct_referents: the non-null keys of get_items.
PySetObject_direct_referents(o) ==
    { o.keys[i] : i \in { j \in DOMAIN o.keys : o.keys[j] # 0 } }

\* sizeof(PyFrameObject), the bytes of a frame before f_localsplus.
sizeof_PyFrameObject == 64

\* sizeof(MappedPtr<PyObject>)
sizeof_MappedPtr == 8

\* A variant of the test below that looks at the frame's fixed part only.
localsplus_fits_MutantHeaderOnly(o) == exists_range(o.addr, sizeof_PyFrameObject)

\* env.r.exists_range(env.r.host_to_mapped(this),
\*     sizeof(*this) + varnames.ob_size * sizeof(MappedPtr<PyObject>))
localsplus_fits(o) ==
    exists_range(o.addr, U(sizeof_PyFrameObject + U(o.ob_size * sizeof_MappedPtr)))

\* The for loop over z < varnames.ob_size from index z on: the reason of the
\* first name or non-null local that is invalid, and the elements of
\* f_localsplus read on the way.
RECURSIVE localsplus_loop(_, _)
localsplus_loop(o, z) ==
    IF ~(z <= o.ob_size) THEN [reason |-> "ok", read |-> {}]
    ELSE IF o.names_ir[z] # "ok" THEN [reason |-> o.names_ir[z], read |-> {}]
    ELSE IF o.locals[z].value # 0 /\ o.localsplus_ir[z] # "ok"
    THEN [reason |-> o.localsplus_ir[z], read |-> {z}]
    ELSE LET rest == localsplus_loop(o, z + 1)
         IN  [reason |-> rest.reason, read |-> {z} \cup rest.read]

\* The part of PyFrameObject::invalid_reason that runs for a non-null
\* f_code: the code object and its co_varnames are checked through the
\* Environment (f_code_ir, co_varnames_ir: what those calls return), then
\* the range of f_localsplus, then each name and local.
PyFrameObject_code_part(o) ==
    IF o.f_code = 0 THEN [reason |-> "ok", read |-> {}]
    ELSE IF o.f_code_ir # "ok" THEN [reason |-> o.f_code_ir, read |-> {}]
    ELSE IF o.co_varnames_ir # "ok" THEN [reason |-> o.co_varnames_ir, read |-> {}]
    ELSE IF ~localsplus_fits(o) THEN [reason |-> "invalid_f_localsplus_range", read |-> {}]
    ELSE localsplus_loop(o, 1)

\* PyFrameObject::invalid_reason
PyFrameObject_invalid_reason(o) ==
    IF ~o.f_state_in_range THEN "invalid_f_state"
    ELSE IF ~obj_valid_or_null(o.f_back, 8, sizeof_PyObject) THEN "invalid_f_back"
    ELSE IF ~obj_valid_or_null(o.f_code, 8, sizeof_PyObject) THEN "invalid_f_code"
    ELSE IF ~obj_valid_or_null(o.f_builtins, 8, sizeof_PyObject) THEN "invalid_f_builtins"
    ELSE IF ~obj_valid_or_null(o.f_globals, 8, sizeof_PyObject) THEN "invalid_f_globals"
    ELSE IF ~obj_valid_or_null(o.f_locals, 8, sizeof_PyObject) THEN "invalid_f_locals"
    ELSE IF ~obj_valid_or_null(o.f_valuestack, 1, sizeof_PyObject) THEN "invalid_f_valuestack"
    ELSE IF ~obj_valid_or_null(o.f_trace, 1, sizeof_PyObject) THEN "invalid_f_trace"
    ELSE IF ~obj_valid_or_null(o.f_gen, 1, sizeof_PyObject) THEN "invalid_f_gen"
    ELSE PyFrameObject_code_part(o).reason

\* The elements of f_localsplus that PyFrameObject::invalid_reason reads.
PyFrameObject_localsplus_read(o) ==
    IF PyFrameObject_invalid_reason(o) = PyFrameObject_code_part(o).reason
    THEN PyFrameObject_code_part(o).read
    ELSE {}

\* PyFrameObject::locals throws invalid_object unless f_code is a valid code
\* object with a valid co_varnames tuple.
PyFrameObject_locals_raises(o) ==
    o.f_code = 0 \/ o.f_code_ir # "ok" \/ o.co_varnames_ir # "ok"

\* PyFrameObject::direct_referents: seven of the pointers, then the name and
\* value addresses of locals().
PyFrameObject_direct_referents(o) ==
    IF PyFrameObject_locals_raises(o) THEN [raised |-> TRUE, addrs |-> {}]
    ELSE [raised |-> FALSE,
          addrs |-> { o.f_back, o.f_code, o.f_builtins, o.f_globals, o.f_locals, o.f_trace,
                      o.f_gen }
                        \cup UNION { { o.locals[i].name, o.locals[i].value } :
                                       i \in DOMAIN o.locals }]

\* sizeof(PyDictKeyEntry): me_hash, me_key, me_value.
sizeof_PyDictKeyEntry == 24

\* PyDictObject::get_items: for every table value >= 0 the entry at
\* table_v * sizeof(PyDictKeyEntry) of entries_r, whose size is
\* sizeof(PyDictKeyEntry) * (dk_usable + dk_nentries); pget past the end of
\* the reader throws std::out_of_range.
PyDictObject_get_items(o) ==
    LET num_entries == o.dk_usable + o.dk_nentries
        entries_r_size == sizeof_PyDictKeyEntry * num_entries
        slots == { i \in DOMAIN o.table : o.table[i] >= 0 }
    IN  IF \E i \in slots :
              o.table[i] * sizeof_PyDictKeyEntry + sizeof_PyDictKeyEntry > entries_r_size
        THEN [raised |-> TRUE, items |-> {}]
        ELSE [raised |-> FALSE,
              items |-> { << o.entries[o.table[i] + 1].me_key,
                             o.entries[o.table[i] + 1].me_value >> : i \in slots }]

\* PyDictObject::invalid_reason, for a dict with a valid PyObject header, a
\* combined table (ma_values null) and readable table and entries.
PyDictObject_invalid_reason(o) ==
    IF ~obj_valid(o.ma_keys, 8, sizeof_PyObject) THEN "invalid_ma_keys"
    ELSE LET items == PyDictObject_get_items(o)
         IN  IF items.raised THEN "raised"
             ELSE IF \E it \in items.items : ~obj_valid(it[1], 8, sizeof_PyObject)
                                          \/ ~obj_valid(it[2], 8, sizeof_PyObject)
             THEN "invalid_entry"
             ELSE "ok"

\* PyDictObject::direct_referents
PyDictObject_direct_referents(o) ==
    LET items == PyDictObject_get_items(o)
    IN  [raised |-> items.raised,
         addrs |-> IF items.raised THEN {}
                   ELSE { o.ma_keys, 0 } \cup UNION { { it[1], it[2] } : it \in items.items }]

\* obj.invalid_reason(env) of the object under test.
CallInvalidReason ==
    /\ "invalid_reason" \notin dec.called
    /\ dec' = [dec EXCEPT !.called = @ \cup {"invalid_reason"},
                          !.invalid_reason =
                              CASE dec_obj.kind = "set" -> PySetObject_invalid_reason(dec_obj)
                                [] dec_obj.kind = "frame" -> PyFrameObject_invalid_reason(dec_obj)
                                [] OTHER -> PyDictObject_invalid_reason(dec_obj),
                          !.localsplus_read =
                              IF dec_obj.kind = "frame"
                              THEN PyFrameObject_localsplus_read(dec_obj) ELSE {}]
    /\ UNCHANGED << snapVars, readerVars, scanVars, calls, termVars, catVars, shellVars,
                    graphVars, stackVars, tallyVars, reprVars, dumpVars, loopVars, reportVars,
                    dec_obj >>

\* obj.direct_referents(env) of the object under test.
CallDirectReferents ==
    /\ "direct_referents" \notin dec.called
    /\ dec' = [dec EXCEPT !.called = @ \cup {"direct_referents"},
                          !.direct_referents =
                              CASE dec_obj.kind = "set" ->
                                       [raised |-> FALSE,
                                        addrs |-> PySetObject_direct_referents(dec_obj)]
                                [] dec_obj.kind = "frame" ->
                                       PyFrameObject_direct_referents(dec_obj)
                                [] OTHER -> PyDictObject_direct_referents(dec_obj)]
    /\ UNCHANGED << snapVars, readerVars, scanVars, calls, termVars, catVars, shellVars,
                    graphVars, stackVars, tallyVars, reprVars, dumpVars, loopVars, reportVars,
                    dec_obj >>

\* ------------------------------------------------------------------------
\* Specification SpecDecode: the two functions on set, frame and dict
\* objects of a snapshot with one region.
\* ------------------------------------------------------------------------

DecodeRegions == << Rgn(4096, 4096) >>

\* Pointer values read from an object's bytes: null, aligned and misaligned
\* addresses outside every region, aligned and misaligned addresses inside.
PtrSamples == { 0, 8, 9, DecodeRegions[1].addr + 64, DecodeRegions[1].addr + 65 }

\* An address that holds a valid object.
ValidPtr == DecodeRegions[1].addr + 128

\* Where the frame under test lies: well inside the region, or so that one
\* pointer fits between its fixed part and the region's end.
FrameAddr == DecodeRegions[1].addr + 256
LastFrameAddr ==
    DecodeRegions[1].addr + DecodeRegions[1].size - sizeof_PyFrameObject - sizeof_MappedPtr

SetObjects ==
    [kind : {"set"}, fill : {1, 3}, mask : {1}, used : {1, 2},
     table : {ValidPtr, 0}, keys : [1 .. 2 -> PtrSamples]]

FrameObjects ==
    [kind : {"frame"}, f_state_in_range : BOOLEAN, f_back : PtrSamples,
     f_code : {ValidPtr}, f_builtins : {ValidPtr}, f_globals : {0, ValidPtr},
     f_locals : {0}, f_valuestack : {ValidPtr}, f_trace : PtrSamples, f_gen : {0, 9},
     locals : { << [name |-> ValidPtr, value |-> v] >> : v \in {0, ValidPtr} },
     addr : {FrameAddr}, f_code_ir : {"ok"}, co_varnames_ir : {"ok"}, ob_size : {1},
     names_ir : { << "ok" >> }, localsplus_ir : { << "ok" >> }]

\* Largest co_varnames.ob_size of a frame of the model.
MaxVarnames == 2

\* Frames in the middle of the region and frames whose fixed part ends at
\* most one pointer before the region's end, with a null f_code or one that
\* the Environment finds valid or not, with 0 .. MaxVarnames names, and
\* with names and locals that are valid or not.  co_varnames is a tuple of
\* the snapshot, so its ob_size is that of an array inside a region.
LocalsplusFrames ==
    UNION { [kind : {"frame"}, f_state_in_range : BOOLEAN,
             f_back : {0, DecodeRegions[1].addr + 65},
             f_code : {0, ValidPtr, DecodeRegions[1].addr + 65}, f_builtins : {ValidPtr},
             f_globals : {0, DecodeRegions[1].addr + 65},
             f_locals : {0}, f_valuestack : {ValidPtr}, f_trace : {0}, f_gen : {0},
             locals : [1 .. n -> [name : {ValidPtr}, value : {0, ValidPtr}]],
             addr : {FrameAddr, LastFrameAddr},
             f_code_ir : {"ok", "incorrect_type"}, co_varnames_ir : {"ok", "incorrect_type"},
             ob_size : {n},
             names_ir : [1 .. n -> {"ok", "incorrect_type"}],
             localsplus_ir : [1 .. n -> {"ok", "invalid_addr"}]] : n \in 0 .. MaxVarnames }

DictObjects ==
    [kind : {"dict"}, ma_keys : {ValidPtr, 0}, dk_usable : {0, 1}, dk_nentries : {0, 1},
     table : UNION { [1 .. n -> {-1, 0, 1, 2}] : n \in 1 .. 2 },
     entries : [1 .. 2 -> [me_key : {ValidPtr}, me_value : {ValidPtr, 8}]]]

NoDec ==
    [called |-> {}, invalid_reason |-> "", localsplus_read |-> {},
     direct_referents |-> [raised |-> FALSE, addrs |-> {}]]

InitDecode ==
    /\ regions_by_mapped = DecodeRegions
    /\ heap = << >>
    /\ ReaderIdle
    /\ ScanIdle
    /\ TermIdle
    /\ CatIdle
    /\ GraphIdle
    /\ StacksIdle
    /\ TallyIdle
    /\ ReprIdle
    /\ DumpIdle
    /\ LoopIdle
    /\ ReportIdle
    /\ shell = NoShell
    /\ cmd = NoCmd
    /\ dec_obj \in SetObjects \cup FrameObjects \cup DictObjects \cup LocalsplusFrames
    /\ dec = NoDec

NextDecode ==
    \/ CallInvalidReason
    \/ CallDirectReferents

\* ------------------------------------------------------------------------
\* AnalysisShell::run and ShellCommand::dispatch
\* ------------------------------------------------------------------------

\* Longest input of a session of the model.
MaxInput == 3

\* The lines of the model: an empty line, a blank one, commands with and
\* without surrounding blanks, a name that is no command, and commands
\* whose arguments make them throw.
Lines == { "", " ", "help", "exit", " exit ", "bogus", "repr zz", "find" }

\* phosg::strip_whitespace(command)
strip_whitespace(command) ==
    CASE command = " " -> ""
      [] command = " exit " -> "exit"
      [] OTHER -> command

\* args.get<std::string>(0, false): the first word of the command, or the
\* empty string.
command_name_of(command) ==
    CASE command = "repr zz" -> "repr"
      [] OTHER -> command

\* A variant of the registry below from which exit is missing.
commands_by_name_MutantNoExit == { "help", "find", "repr" }

\* ShellCommand::commands_by_name: the names registered by the static
\* ShellCommand objects (those the lines of the model use).
commands_by_name == { "help", "exit", "find", "repr" }

\* What run(shell, args) of a command does in the main thread: help prints,
\* exit sets should_exit, find without DATA and repr of an unparseable
\* address throw a std::exception.
run_of(command) ==
    CASE command = "exit" -> "exit"
      [] command \in { "find", "repr zz" } -> "throws"
      [] OTHER -> "returns"

\* ShellCommand::dispatch(shell, command)
dispatch(command) ==
    LET command_name == command_name_of(command)
    IN  IF command_name = "" THEN "nothing"
        ELSE IF command_name \notin commands_by_name THEN "invalid_command"
        ELSE run_of(command)

\* One pass of the while loop of run: the test of should_exit, readline, the
\* two breaks, strip_whitespace, run_command, and the catch clause that
\* prints "Error: ..." for a std::exception.
ShellIteration ==
    /\ run_pc = "loop"
    /\ IF should_exit
       THEN /\ run_pc' = "done"
            /\ ended_by' = "exit"
            /\ UNCHANGED << next_line, should_exit, run_log, term >>
       ELSE IF next_line = Len(input)
       THEN /\ run_pc' = "done"
            /\ ended_by' = "end_of_input"
            /\ UNCHANGED << next_line, should_exit, run_log, term >>
       ELSE LET buf == input[next_line + 1]
                outcome == dispatch(strip_whitespace(buf))
            IN  /\ next_line' = next_line + 1
                /\ IF buf = ""
                   THEN /\ run_pc' = "done"
                        /\ ended_by' = "empty_line"
                        /\ term' = write(MainThread, "newline")
                        /\ UNCHANGED << should_exit, run_log >>
                   ELSE /\ run_log' = Append(run_log, [line |-> next_line + 1,
                                                       outcome |-> outcome])
                        /\ should_exit' = (outcome = "exit")
                        /\ term' = CASE outcome = "invalid_command" ->
                                           write(MainThread, "invalid_command")
                                     [] outcome = "throws" -> write(MainThread, "error")
                                     [] outcome = "returns" -> write(MainThread, "help")
                                     [] OTHER -> term
                        /\ UNCHANGED << run_pc, ended_by >>
    /\ UNCHANGED << snapVars, readerVars, scanVars, calls, output_lock, catVars, shellVars,
                    graphVars, stackVars, tallyVars, reprVars, decVars, dumpVars, reportVars, input >>

RECURSIVE Inputs(_)
Inputs(n) ==
    IF n = 0 THEN { << >> }
    ELSE Inputs(n - 1) \cup { Append(i, l) : i \in { j \in Inputs(n - 1) : Len(j) = n - 1 },
                                             l \in Lines }

InitRun ==
    /\ regions_by_mapped \in BootRegionLists
    /\ heap = << >>
    /\ ReaderIdle
    /\ GraphIdle
    /\ ScanIdle
    /\ TermIdle
    /\ CatIdle
    /\ StacksIdle
    /\ TallyIdle
    /\ ReprIdle
    /\ DecodeIdle
    /\ DumpIdle
    /\ ReportIdle
    /\ shell = NoShell
    /\ cmd = NoCmd
    /\ input \in Inputs(MaxInput)
    /\ next_line = 0
    /\ should_exit = FALSE
    /\ run_pc = "loop"
    /\ run_log = << >>
    /\ ended_by = "none"

NextRun == ShellIteration

\* ------------------------------------------------------------------------
\* MemoryReader::dump into a directory and MemoryReader's constructor on
\* that directory.  dump_readable[i] is the number of bytes of range i that
\* can be read from the target process, counted from the range's start.
\* ------------------------------------------------------------------------

\* The largest read of the dump loop: 1024 * 1024 in the source, scaled with
\* the address width.
max_read == 1024

\* The number of hex digits of a formatted address ("{:016X}" for 64 bits).
HexWidth == (AddrBits + 3) \div 4

\* std::formatter<MappedPtr<T>>: the address as upper-case hex digits, most
\* significant first.
RECURSIVE format_addr(_, _)
format_addr(addr, width) ==
    IF width = 0 THEN << >> ELSE Append(format_addr(addr \div 16, width - 1), addr % 16)

\* std::stoull(token, nullptr, 16)
RECURSIVE stoull(_)
stoull(digits) ==
    IF digits = << >> THEN 0
    ELSE U(stoull(SubSeq(digits, 1, Len(digits) - 1)) * 16 + digits[Len(digits)])

\* The bytes the read loop writes for a range: whole reads of at most
\* max_read bytes until a read fails or the end is reached.
RECURSIVE bytes_written(_, _, _)
bytes_written(done, size, readable) ==
    LET bytes_to_read == Min(size - done, max_read)
    IN  IF ~(done < size) \/ done + bytes_to_read > readable THEN done
        ELSE bytes_written(done + bytes_to_read, size, readable)

\* The lambda of parallel_range for one range_index: the file
\* mem.START.END.bin and what the read loop writes to it.
DumpRange(range_index) ==
    /\ dump_pc = "dump"
    /\ range_index \in dump_todo
    /\ LET addr == dump_ranges[range_index].addr
           size == dump_ranges[range_index].size
           filename == << "mem", format_addr(addr, HexWidth),
                          format_addr(offset_bytes(addr, size), HexWidth), "bin" >>
       IN  dump_files' = dump_files \cup
               { [filename |-> filename,
                  total_size |-> bytes_written(0, size, dump_readable[range_index]),
                  data_from |-> addr] }
    /\ dump_todo' = dump_todo \ {range_index}
    /\ UNCHANGED << snapVars, readerVars, scanVars, calls, termVars, catVars, shellVars,
                    graphVars, stackVars, tallyVars, reprVars, decVars, loopVars, reportVars, dump_ranges,
                    dump_readable, dump_pc >>

\* parallel_range returns when every range is done; dump writes its summary.
DumpFinish ==
    /\ dump_pc = "dump"
    /\ dump_todo = {}
    /\ dump_pc' = "dumped"
    /\ term' = write(MainThread, "summary")
    /\ UNCHANGED << snapVars, readerVars, scanVars, calls, output_lock, catVars, shellVars,
                    graphVars, stackVars, tallyVars, reprVars, decVars, loopVars, reportVars, dump_ranges,
                    dump_readable, dump_files, dump_todo >>

\* The elements of a set of views as the list in ascending order of addr.
RECURSIVE by_mapped(_)
by_mapped(views) ==
    IF views = {} THEN << >>
    ELSE LET first == CHOOSE v \in views : \A w \in views : v.addr <= w.addr
         IN  << first >> \o by_mapped(views \ {first})

\* MemoryReader::MemoryReader on the directory: every file named
\* mem.START.END.bin whose size is not 0 becomes the region at START with
\* the file's size.
OpenDirectory ==
    /\ dump_pc = "dumped"
    /\ regions_by_mapped' =
          by_mapped({ Rgn(stoull(f.filename[2]), f.total_size) :
                      f \in { g \in dump_files :
                                /\ Len(g.filename) = 4
                                /\ g.filename[1] = "mem"
                                /\ g.filename[4] = "bin"
                                /\ g.total_size > 0 } })
    /\ dump_pc' = "opened"
    /\ UNCHANGED << heap, readerVars, scanVars, calls, termVars, catVars, shellVars,
                    graphVars, stackVars, tallyVars, reprVars, decVars, loopVars, reportVars, dump_ranges,
                    dump_readable, dump_files, dump_todo >>

\* ------------------------------------------------------------------------
\* Specification SpecDump: dump of every list of ranges with every choice
\* of readable prefixes, then the open of the written directory.
\* ------------------------------------------------------------------------

\* How much of a range can be read: nothing, a part that ends inside a
\* read, or all of it.
ReadableChoices(r) == { 0, Min(max_read + 512, r.size), r.size }

InitDump ==
    /\ regions_by_mapped = << >>
    /\ heap = << >>
    /\ ReaderIdle
    /\ ScanIdle
    /\ TermIdle
    /\ CatIdle
    /\ GraphIdle
    /\ StacksIdle
    /\ TallyIdle
    /\ ReprIdle
    /\ DecodeIdle
    /\ LoopIdle
    /\ ReportIdle
    /\ shell = NoShell
    /\ cmd = NoCmd
    /\ dump_ranges \in RegionLists
    /\ dump_readable \in
          { p \in [DOMAIN dump_ranges ->
                     UNION { ReadableChoices(dump_ranges[i]) : i \in DOMAIN dump_ranges }] :
              \A i \in DOMAIN dump_ranges : p[i] \in ReadableChoices(dump_ranges[i]) }
    /\ dump_files = {}
    /\ dump_todo = DOMAIN dump_ranges
    /\ dump_pc = "dump"

NextDump ==
    \/ \E range_index \in DOMAIN dump_ranges : DumpRange(range_index)
    \/ DumpFinish
    \/ OpenDirectory

\* ------------------------------------------------------------------------
\* Specification SpecScan: one call of map_all_addresses with the recording
\* predicate, for each snapshot, stride, object size and thread count.
\* ------------------------------------------------------------------------

Strides == { 1024, 2048, 4096, 3072, 8192 }
ObjectSizes == { 8, 1024 }

InitScan ==
    /\ regions_by_mapped \in RegionLists
    /\ heap = << >>
    /\ ReaderIdle
    /\ GraphIdle
    /\ CatIdle
    /\ shell = NoShell
    /\ cmd = RecordCmd
    /\ args \in [stride : Strides, num_threads : 1 .. MaxThreads, object_size : ObjectSizes]
    /\ current_offset = 0
    /\ thr = << >>
    /\ mainpc = "call"
    /\ progress = NoProgress
    /\ calls = << >>
    /\ TermIdle
    /\ MoreIdle

NextScan ==
    \/ ScanEnter
    \/ ScanSpawn
    \/ \E t \in Threads : ThreadFetch(t)
    \/ \E t \in Threads : ThreadLoop(t)
    \/ ScanProgress
    \/ ScanJoin

\* ------------------------------------------------------------------------
\* Specification SpecTerm: one scan of the find command (--ptr, with or
\* without --count) for each snapshot, --align value, data size and thread
\* count, under the scheduling of the threads: every thread that can take a
\* step eventually takes it.
\* ------------------------------------------------------------------------

\* --align values: 0 and powers of two that pass both argument checks, and
\* one value for each check that fails.
Alignments_of_find == { 0, 8, 4096, 12, 8192 }

\* data.size(): one byte, or the eight bytes of --ptr.
DataSizes == { 1, 8 }

\* Where the snapshot holds 8-byte words worth naming: the target value and
\* another one.
WordHeaps ==
    { << >>,
      (4104 :> [value |-> 7]) @@ (4112 :> [value |-> 3]) @@ (8200 :> [value |-> 7]) }

InitTerm ==
    /\ regions_by_mapped \in RegionLists
    /\ heap \in WordHeaps
    /\ ReaderIdle
    /\ GraphIdle
    /\ CatIdle
    /\ shell = NoShell
    /\ cmd \in { FindCmd(c) : c \in BOOLEAN }
    /\ args \in [stride : Alignments_of_find, num_threads : ThreadCounts,
                 object_size : DataSizes]
    /\ current_offset = 0
    /\ thr = << >>
    /\ mainpc = "call"
    /\ progress = NoProgress
    /\ calls = << >>
    /\ TermIdle
    /\ MoreIdle

NextTerm ==
    \/ ScanEnter
    \/ ScanSpawn
    \/ \E t \in Threads : ThreadFetch(t)
    \/ \E t \in Threads : ThreadLoop(t)
    \/ \E t \in Threads : PredLock(t)
    \/ \E t \in Threads : PredCrit(t)
    \/ ScanProgress
    \/ ScanJoin

\* ------------------------------------------------------------------------
\* Specification SpecReader: MemoryReader operations applied to arguments
\* drawn around the region boundaries and the ends of the address space.
\* ------------------------------------------------------------------------

Edges(rl) ==
    UNION { { rl[i].addr, rl[i].addr + 1, rl[i].addr + 8, rl[i].addr - 1,
              rl[i].addr + rl[i].size, rl[i].addr + rl[i].size - 1,
              rl[i].addr + rl[i].size - 8, rl[i].addr + rl[i].size + 1 } : i \in DOMAIN rl }

AddrSamples(rl) == { U(a) : a \in Edges(rl) \cup { 0, 1, 8, AddrMod - 8, AddrMod - 1 } }

SizeSamples(rl) ==
    { 0, 1, 7, 8, 9, 4096, AddrMod - 4096, AddrMod - 9, AddrMod - 8, AddrMod - 1 }
        \cup { rl[i].size : i \in DOMAIN rl }

Alignments == { 1, 4, 8 }

\* sizeof(SizeType) of the obj_valid<T> / obj_valid_or_null<T> instantiation.
SizeofTs == { 1, 8 }

InitReader ==
    /\ regions_by_mapped \in RegionLists
    /\ q \in [addr : AddrSamples(regions_by_mapped), size : SizeSamples(regions_by_mapped),
              alignment : Alignments, sizeofT : SizeofTs]
    /\ ret = NoRet
    /\ called = {}
    /\ heap = << >>
    /\ GraphIdle
    /\ ScanIdle
    /\ TermIdle
    /\ MoreIdle
    /\ CatIdle
    /\ shell = NoShell
    /\ cmd = NoCmd

CallRead ==
    /\ "read" \notin called
    /\ ret' = [ret EXCEPT !.read = read(q.addr, q.size)]
    /\ called' = called \cup {"read"}
    /\ UNCHANGED << snapVars, moreVars, graphVars, q, scanVars, calls, termVars, catVars, shellVars >>

CallExistsRange ==
    /\ "exists_range" \notin called
    /\ ret' = [ret EXCEPT !.exists_range = exists_range(q.addr, q.size)]
    /\ called' = called \cup {"exists_range"}
    /\ UNCHANGED << snapVars, moreVars, graphVars, q, scanVars, calls, termVars, catVars, shellVars >>

CallObjValid ==
    /\ "obj_valid" \notin called
    /\ ret' = [ret EXCEPT !.obj_valid = obj_valid(q.addr, q.alignment, q.sizeofT)]
    /\ called' = called \cup {"obj_valid"}
    /\ UNCHANGED << snapVars, moreVars, graphVars, q, scanVars, calls, termVars, catVars, shellVars >>

CallObjValidOrNull ==
    /\ "obj_valid_or_null" \notin called
    /\ ret' = [ret EXCEPT !.obj_valid_or_null = obj_valid_or_null(q.addr, q.alignment, q.sizeofT)]
    /\ called' = called \cup {"obj_valid_or_null"}
    /\ UNCHANGED << snapVars, moreVars, graphVars, q, scanVars, calls, termVars, catVars, shellVars >>

\* The context command with ADDRESS q.addr and --size=q.size.
CallContext ==
    /\ "context" \notin called
    /\ ret' = [ret EXCEPT !.context = context(q.addr, q.size)]
    /\ called' = called \cup {"context"}
    /\ UNCHANGED << snapVars, moreVars, graphVars, q, scanVars, calls, termVars, catVars, shellVars >>

NextContext == CallContext

NextReader == CallRead \/ CallExistsRange \/ CallObjValid \/ CallObjValidOrNull

vars == << snapVars, readerVars, scanVars, calls, termVars, catVars, shellVars, graphVars,
          moreVars >>

SpecReader == InitReader /\ [][NextReader]_vars

SpecScan == InitScan /\ [][NextScan]_vars

SpecBoot == InitBoot /\ [][NextBoot]_vars

SpecTypes == InitTypes /\ [][NextBoot]_vars

SpecRun == InitRun /\ [][NextRun]_vars

SpecRebuild == InitRebuild /\ [][NextRebuild]_vars

SpecFind == InitFind /\ [][NextFind]_vars

SpecGraph == InitGraph /\ [][NextGraph]_vars

SpecStacks == InitStacks /\ [][NextStacks]_vars

SpecDump == InitDump /\ [][NextDump]_vars

SpecDecode == InitDecode /\ [][NextDecode]_vars

SpecRepr == InitRepr /\ [][NextRepr]_vars

SpecContext == InitReader /\ [][NextContext]_vars

SpecCount == InitFind /\ [][NextCount]_vars

SpecStrings == InitStrings /\ [][NextStrings]_vars

\* The main thread and every std::thread of the scan keep running.
FairScan ==
    /\ WF_vars(ScanEnter)
    /\ WF_vars(ScanSpawn)
    /\ WF_vars(ScanProgress)
    /\ WF_vars(ScanJoin)
    /\ \A t \in 0 .. (SetMax(ThreadCounts) - 1) :
          /\ WF_vars(t \in Threads /\ ThreadFetch(t))
          /\ WF_vars(t \in Threads /\ ThreadLoop(t))
          /\ WF_vars(t \in Threads /\ PredLock(t))
          /\ WF_vars(t \in Threads /\ PredCrit(t))

SpecTerm == InitTerm /\ [][NextTerm]_vars /\ FairScan

SpecModule == InitModule /\ [][NextModule]_vars

\* ------------------------------------------------------------------------
\* Claims about MemoryReader (checked under SpecReader)
\* ------------------------------------------------------------------------

\* [addr, addr + size) lies inside region i, in unbounded integers; a range
\* is located at addr, so addr itself is an address of the region.
InsideRegion(i, addr, size) ==
    LET r == regions_by_mapped[i]
    IN  r.addr <= addr /\ addr < r.addr + r.size /\ addr + size <= r.addr + r.size

InsideOneRegion(addr, size) == \E i \in DOMAIN regions_by_mapped : InsideRegion(i, addr, size)

C3_ExistsRangeImpliesRead ==
    ({"read", "exists_range"} \subseteq called /\ ret.exists_range) =>
        /\ ret.read.ok
        /\ ret.read.offset = q.addr - regions_by_mapped[ret.read.region].addr
        /\ ret.read.size = q.size

\* C4: obj_valid_or_null(addr, align) is true exactly when addr is null or
\* obj_valid(addr, align) is true.
C4_ValidOrNullIsNullOrValid ==
    {"obj_valid", "obj_valid_or_null"} \subseteq called =>
        (ret.obj_valid_or_null <=> (q.addr = 0 \/ ret.obj_valid))

\* ------------------------------------------------------------------------
\* Claims about map_all_addresses (checked under SpecScan)
\* ------------------------------------------------------------------------

\* The offsets of region r the scanner is to visit: o in [0, size - object_size]
\* with o % stride = 0.
CoverageOffsets(r) ==
    { o \in 0 .. (r.size - args.object_size) : o % args.stride = 0 }

\* C1: when map_all_addresses has returned, the predicate has been invoked
\* exactly once on r.start + o for every region r and every offset o in
\* [0, r.size - object_size] with o % stride = 0, whatever the interleaving of
\* the workers.
C1_ScanCoverage ==
    mainpc = "returned" =>
        \A i \in DOMAIN all_regions :
            \A o \in CoverageOffsets(all_regions[i]) :
                BagCount(calls, all_regions[i].addr + o) = 1

\* ------------------------------------------------------------------------
\* Claims about the catalog bootstrap (checked under SpecBoot, SpecRebuild)
\* ------------------------------------------------------------------------

is_base_type_candidate(a) ==
    /\ heap[a].ob_type = a
    /\ ~heap[a].invalid
    /\ heap[a].name = "type"

BaseTypeCandidates == { a \in DOMAIN heap : is_base_type_candidate(a) }

\* C5: find-base-type started with a null base type: the scan reports exactly
\* the self-typed valid objects named "type"; with exactly one of them the
\* base type is set to it and the catalog is saved, with none or several the
\* base type stays null and nothing is saved, in whatever order the workers
\* report.
C5_BaseTypeIffSingleCandidate ==
    shell.pc \in {"prepare2", "find_all_types", "prompt"} =>
        /\ { candidates[i] : i \in DOMAIN candidates } = BaseTypeCandidates
        /\ Len(candidates) = Cardinality(BaseTypeCandidates)
        /\ IF Cardinality(BaseTypeCandidates) = 1
           THEN /\ env.base_type_object \in BaseTypeCandidates
                /\ saved.written
                /\ saved.base_type_object = env.base_type_object
                /\ shell.pc = "prepare2" => saved.type_objects = << >>
           ELSE /\ env = NullEnv
                /\ saved = NotSaved

\* find_base_type_object has just set the base type to the one candidate of
\* a snapshot that also holds a self-typed object failing the validity test.
C5_Witness ==
    /\ shell.pc = "prepare2"
    /\ Cardinality(BaseTypeCandidates) = 1
    /\ env.base_type_object \in BaseTypeCandidates
    /\ saved.written
    /\ \E a \in DOMAIN heap : heap[a].ob_type = a /\ heap[a].invalid

\* C6: for one snapshot the map built by find-all-types (which address is
\* under the plain name, which under "{name}+{A}") is the same in every run,
\* whatever the interleaving of the workers.
C6_CollisionDeterministic ==
    (shell.session = 2 /\ shell.pc = "prompt") => env.type_objects = first_catalog

\* C7: the catalog is read-only while a scan is running: it is mutated only
\* by the main thread and only when no scan is running.
C7_CatalogReadOnlyDuringScan ==
    catalog_write # NoCatalogWrite =>
        (catalog_write.writer = MainThread /\ ~catalog_write.in_scan)

\* ------------------------------------------------------------------------
\* Claims about the terminal (checked under SpecFind)
\* ------------------------------------------------------------------------

\* C8: during a scan every write to stdout/stderr, the progress line as well
\* as a predicate's lines, is made by a thread that holds the output lock, so
\* no progress line is written while a predicate is between its two writes.
C8_WritesHoldOutputLock ==
    term.in_scan =>
        /\ term.holder = term.writer
        /\ term.kind = "progress" => term.during = {}

\* ------------------------------------------------------------------------
\* Claims about async-task-graph (checked under SpecGraph)
\* ------------------------------------------------------------------------

\* C9: for the await graph T1 -> G1 -> T2 -> G2 -> T3 -> G3 -> T1 the command
\* emits one tree rooted at T1 whose deepest line is <!seen>@T1.
C9_CycleTreeRootedAtT1 ==
    (await_targets_for_obj = Cycle6 /\ graph_pc = "done") =>
        /\ Len(stderr_lines) = 7
        /\ stderr_lines[1] = [depth |-> 0, kind |-> "repr", addr |-> 16]
        /\ stderr_lines[7] = [depth |-> 6, kind |-> "seen", addr |-> 16]

RECURSIVE ReachableIn(_, _, _)
\* The addresses reached from the set S by one to n await edges of g.
ReachableIn(g, S, n) ==
    IF n = 0 THEN {}
    ELSE LET step == UNION { g[a] : a \in S \cap DOMAIN g }
         IN  step \cup ReachableIn(g, step, n - 1)

\* The await graph g has a cycle through addr.
OnCycle(g, addr) == addr \in ReachableIn(g, {addr}, Cardinality(DOMAIN g))

\* C10: a <!seen>@addr line is emitted only if the await graph has a cycle
\* through addr; for an acyclic await graph no <!seen> line is emitted.
C10_SeenOnlyOnCycle ==
    \A i \in DOMAIN stderr_lines :
        stderr_lines[i].kind = "seen" => OnCycle(await_targets_for_obj, stderr_lines[i].addr)

\* ------------------------------------------------------------------------
\* Claims about find-all-stacks (checked under SpecStacks)
\* ------------------------------------------------------------------------

\* The roots of the map: the collected frames that are no frame's f_back.
NotAnyBack == { a \in DOMAIN back_for_frame :
                  \A b \in DOMAIN back_for_frame : back_for_frame[b] # a }

\* The headers written so far name these roots, in this order.
HeaderAddrs == SelectSeq(stderr_lines, LAMBDA l : l.kind = "header")

\* C11: the roots are exactly the collected frames that are no collected
\* frame's f_back; each traceback starts at its root and goes on with the
\* f_back of the line before, most recent first, and ends with a frame whose
\* f_back is null (F3 -> F2 -> F1 -> null gives the lines F3, F2, F1).
C11_TracebackFollowsBack ==
    /\ stacks_pc # "roots" =>
          { HeaderAddrs[i].addr : i \in DOMAIN HeaderAddrs } \cup roots = NotAnyBack
    /\ \A i \in DOMAIN stderr_lines :
          /\ stderr_lines[i].kind = "header" =>
                (i < Len(stderr_lines) =>
                    stderr_lines[i + 1] = [depth |-> 1, kind |-> "frame",
                                           addr |-> stderr_lines[i].addr])
          /\ (stderr_lines[i].kind = "frame" /\ i < Len(stderr_lines)
                  /\ stderr_lines[i].addr \in DOMAIN back_for_frame) =>
                IF back_for_frame[stderr_lines[i].addr] = 0
                THEN stderr_lines[i + 1].kind = "header"
                ELSE stderr_lines[i + 1] = [depth |-> 1, kind |-> "frame",
                                            addr |-> back_for_frame[stderr_lines[i].addr]]
    /\ (stacks_pc = "done" /\ back_for_frame = [a \in FrameNodes |-> a - 16]) =>
          stderr_lines = << [depth |-> 0, kind |-> "blank", addr |-> 0],
                            [depth |-> 0, kind |-> "header", addr |-> 48],
                            [depth |-> 1, kind |-> "frame", addr |-> 48],
                            [depth |-> 1, kind |-> "frame", addr |-> 32],
                            [depth |-> 1, kind |-> "frame", addr |-> 16] >>

\* The run on F3 -> F2 -> F1 -> null has written its three traceback lines.
C11_Witness ==
    /\ stacks_pc = "done"
    /\ back_for_frame = [a \in FrameNodes |-> a - 16]
    /\ Len(stderr_lines) = 5

\* C12: a traceback line is written only for a frame of the collected set; at
\* an f_back that is non-null and not collected the warning is written and
\* the chain stops.
C12_OnlyCollectedFramesRendered ==
    \A i \in DOMAIN stderr_lines :
        stderr_lines[i].kind = "frame" => stderr_lines[i].addr \in DOMAIN back_for_frame

\* ------------------------------------------------------------------------
\* Claims about aggregate-strings (checked under SpecStrings)
\* ------------------------------------------------------------------------

\* The strings the scan found: the addresses on which the predicate passed
\* its tests and obtained the size, each with its number of invocations.
FoundStrings == DOMAIN calls

\* The count of the bucket with 0-based index b (0 past the vector's end).
BucketCount(b) == IF b + 1 <= Len(histogram_data) THEN histogram_data[b + 1] ELSE 0

RECURSIVE SeqSum(_)
SeqSum(sq) == IF sq = << >> THEN 0 ELSE sq[1] + SeqSum(Tail(sq))

\* The 0-based index of the smallest boundary >= n; Len(size_buckets) for
\* the overflow bucket.
SmallestBoundary(n) ==
    IF \E i \in DOMAIN size_buckets : size_buckets[i] >= n
    THEN SetMin({ i \in DOMAIN size_buckets : size_buckets[i] >= n }) - 1
    ELSE Len(size_buckets)

AggregateDone == cmd.name = "aggregate_strings" /\ shell.pc = "prompt"

\* C13: when aggregate-strings has finished, every string the scan found is
\* counted once, in the bucket of the smallest boundary >= its length (above
\* 1G: the overflow bucket), whatever the interleaving; the reported total is
\* the sum of the bucket counts; two strings of length 7 and one of length
\* 300 give 2 in the bucket <= 10 and 1 in the bucket <= 500.
C13_HistogramCountsEachStringOnce ==
    /\ \A a \in FoundStrings : calls[a] = 1
    /\ AggregateDone =>
          /\ \A b \in 0 .. Len(size_buckets) :
                BucketCount(b) =
                    Cardinality({ a \in FoundStrings :
                                    SmallestBoundary(heap[a].data_size) = b })
          /\ Len(histogram_data) <= Len(size_buckets) + 1
          /\ entries[1].count = SeqSum(histogram_data)
          /\ \A z \in 1 .. Len(histogram_data) :
                /\ entries[z + 1].count = histogram_data[z]
                /\ entries[z + 1].kind = IF z <= Len(size_buckets) THEN "length_le"
                                         ELSE "length_gt"
          /\ { heap[a].data_size : a \in FoundStrings } = {7, 300}
                /\ Cardinality(FoundStrings) = 3 =>
                    histogram_data = << 0, 0, 0, 0, 2, 0, 0, 0, 0, 1 >>

\* A finished run that found three strings, one of them above 1G.
C13_Witness ==
    /\ AggregateDone
    /\ Cardinality(FoundStrings) = 3
    /\ BucketCount(Len(size_buckets)) = 1
    /\ shell.max_threads = 2

\* C14: with --print-larger-than=N alone every found string of N bytes or
\* more is printed, and with --print-smaller-than=N alone every found string
\* of fewer than N bytes is printed.
C14_PrintOptionsAlone ==
    AggregateDone =>
        /\ (cmd.print_larger_than > 0 /\ cmd.print_smaller_than = 0) =>
              \A a \in FoundStrings :
                  heap[a].data_size >= cmd.print_larger_than => BagCount(printed, a) = 1
        /\ (cmd.print_smaller_than > 0 /\ cmd.print_larger_than = 0) =>
              \A a \in FoundStrings :
                  heap[a].data_size < cmd.print_smaller_than => BagCount(printed, a) = 1

\* ------------------------------------------------------------------------
\* Claims about count-by-type (checked under SpecCount)
\* ------------------------------------------------------------------------

\* The number of predicate invocations that matched the type and passed
\* validity.
RECURSIVE Matched(_, _)
Matched(type, addrs) ==
    IF addrs = {} THEN 0
    ELSE LET a == CHOOSE x \in addrs : TRUE
         IN  (IF heap[a].ob_type = type THEN calls[a] ELSE 0) + Matched(type, addrs \ {a})

CountDone == cmd.name = "count_by_type" /\ shell.pc = "prompt"

\* C15: while count-by-type scans, a step changes count_for_type[z] only if
\* it is a step of thread z; when the command has finished, every type with
\* a matching invocation has one line, each line's count is the number of
\* invocations that matched its type and passed validity, for 1 and 2
\* threads and every interleaving, and the counts of the lines ascend.
C15_PerThreadCountsMerged ==
    /\ [](CountDone =>
            /\ \A i \in DOMAIN entries :
                  entries[i].count = Matched(entries[i].addr, DOMAIN calls)
            /\ \A a \in DOMAIN calls :
                  Cardinality({ i \in DOMAIN entries : entries[i].addr = heap[a].ob_type }) = 1
            /\ \A i \in DOMAIN entries : i > 1 => entries[i - 1].count <= entries[i].count)
    /\ [][(ScanRunning /\ cmd.name = "count_by_type") =>
            \A z \in DOMAIN count_for_type :
                count_for_type'[z] # count_for_type[z] =>
                    /\ thr'[z] # thr[z]
                    /\ \A u \in DOMAIN count_for_type \ {z} :
                          count_for_type'[u] = count_for_type[u] /\ thr'[u] = thr[u]]_vars

\* A finished run of two threads in which both threads counted the same type.
C15_Witness ==
    /\ CountDone
    /\ shell.max_threads = 2
    /\ \E type \in DOMAIN count_for_type[0] : type \in DOMAIN count_for_type[1]
    /\ Len(entries) = 2

\* ------------------------------------------------------------------------
\* Claims about the context command (checked under SpecContext)
\* ------------------------------------------------------------------------

Max(a, b) == IF a > b THEN a ELSE b

\* The regions that hold q.addr.
RegionsOfAddr ==
    { i \in DOMAIN regions_by_mapped :
        /\ regions_by_mapped[i].addr <= q.addr
        /\ q.addr < regions_by_mapped[i].addr + regions_by_mapped[i].size }

\* C16: for an address inside a region [s, e) and every size the context
\* command dumps exactly [max(addr - size, s), min(addr + size, e)), a range
\* inside that region whose read does not fail; for an address outside every
\* region the command fails and reads nothing.
C16_ContextClippedToRegion ==
    "context" \in called =>
        /\ RegionsOfAddr = {} => ret.context = OutOfRange
        /\ \A i \in RegionsOfAddr :
              LET s == regions_by_mapped[i].addr
                  e == s + regions_by_mapped[i].size
              IN  /\ ret.context.ok
                  /\ ret.context.region = i
                  /\ s + ret.context.offset = Max(q.addr - q.size, s)
                  /\ s + ret.context.offset + ret.context.size = Min(q.addr + q.size, e)
                  /\ s + ret.context.offset + ret.context.size <= e

\* A dump around an address strictly inside a region, clipped at both ends.
C16_Witness ==
    /\ "context" \in called
    /\ ret.context.ok
    /\ ret.context.offset = 0
    /\ ret.context.size = regions_by_mapped[ret.context.region].size
    /\ q.addr > regions_by_mapped[ret.context.region].addr
    /\ q.size < AddrMod - 4096

\* ------------------------------------------------------------------------
\* Claims about the repr of cyclic containers (checked under SpecRepr)
\* ------------------------------------------------------------------------

\* C17: for every graph of dict/set containers with a cycle and every
\* max_recursion_depth and max_entries, the finished repr of a container on
\* the cycle contains !recursive_repr at least once.
C17_CyclicReprHasMarker ==
    repr_pc = "done" =>
        repr_out \cap {"<dict !recursive_repr>", "<set !recursive_repr>"} # {}

\* ------------------------------------------------------------------------
\* Claims about the decoders (checked under SpecDecode)
\* ------------------------------------------------------------------------

\* C18: for a set or frame object whose invalid_reason is ok, every address
\* returned by direct_referents is null or an address whose bytes exist in
\* some region.
C18_ReferentsExistOrNull ==
    (/\ dec_obj.kind \in {"set", "frame"}
     /\ dec.called = {"invalid_reason", "direct_referents"}
     /\ dec.invalid_reason = "ok") =>
        \A a \in dec.direct_referents.addrs : a = 0 \/ exists(a)

\* C19: PyDictObject::invalid_reason returns ok or one of its reason strings
\* for every content of the dict, its table and its entries, also for a
\* table value >= dk_usable + dk_nentries; no error leaves the decoder.
C19_DictInvalidReasonTotal ==
    (dec_obj.kind = "dict" /\ "invalid_reason" \in dec.called) =>
        dec.invalid_reason \in {"ok", "invalid_ma_keys", "invalid_entry"}

\* ------------------------------------------------------------------------
\* Claims about the directory round trip (checked under SpecDump)
\* ------------------------------------------------------------------------

\* C20: for every list of ranges the dump writer processes, also when some
\* or all bytes of a range cannot be read, opening the written directory
\* yields all_regions() equal to the list of ranges dumped, each region
\* holding the bytes of its range.
C20_DirectoryRoundTrip ==
    dump_pc = "opened" =>
        /\ all_regions = dump_ranges
        /\ \A f \in dump_files : f.total_size > 0 => f.data_from = stoull(f.filename[2])

\* ------------------------------------------------------------------------
\* Claims about the scanner's termination (checked under SpecTerm)
\* ------------------------------------------------------------------------

\* C21: for every region list and every stride map_all_addresses accepts,
\* every worker eventually sees the counter past the total and exits, and the
\* main thread joins the workers and returns.
C21_ScannerTerminates ==
    (mainpc = "call" /\ stride_accepted(args.stride)) ~> (mainpc = "returned")

\* ------------------------------------------------------------------------
\* Claims about find-module (checked under SpecModule)
\* ------------------------------------------------------------------------

\* C22: find-module never aborts the scan or the session because of a bad
\* candidate: a module-typed candidate whose dict pointer slot lies past its
\* region's end, or whose dict pointer is null or points outside every
\* region, is skipped, and once the command is done every module-typed valid
\* candidate has been examined.
C22_BadCandidateSkipped ==
    /\ mainpc # "terminated"
    /\ (shell.pc = "prompt" /\ term.kind = "summary")
          => \A a \in DOMAIN heap : pred_filter(a) => BagCount(calls, a) >= 1

\* ------------------------------------------------------------------------
\* Claims about a missing base type (checked under SpecTypes)
\* ------------------------------------------------------------------------

\* C23: find_all_type_objects entered while base_type_object is null throws
\* to its caller without starting a scan and leaves type_objects and the
\* catalog file as they were; and prepare() never calls
\* find_all_type_objects while base_type_object is null.
C23_MissingBaseTypeAborts ==
    /\ [][(shell.pc = "find_all_type_objects" /\ env.base_type_object = 0)
            => /\ shell'.pc = "runtime_error"
               /\ mainpc' = "idle"
               /\ env' = env
               /\ saved' = saved]_vars
    /\ [][(shell.pc = "prepare2" /\ shell'.pc = "find_all_type_objects")
            => env.base_type_object # 0]_vars

\* find_all_type_objects has thrown in a session whose catalog holds type
\* objects and no base type object.
C23_Witness ==
    /\ shell.pc = "runtime_error"
    /\ env.base_type_object = 0
    /\ env.type_objects # << >>
    /\ saved = save_analysis(env)

\* ------------------------------------------------------------------------
\* Claims about the shell's session loop (checked under SpecRun)
\* ------------------------------------------------------------------------

\* The lines that name the exit command.
IsExitLine(l) == l \in { "exit", " exit " }

\* The lines that name no command, and those whose command throws.
IsUnknownLine(l) == l = "bogus"
IsRaisingLine(l) == l \in { "find", "repr zz" }

\* The first line that ends the session: an empty line or exit.
FirstEnd ==
    SetMin({ k \in DOMAIN input : input[k] = "" \/ IsExitLine(input[k]) }
               \cup { Len(input) + 1 })

\* C24: an unknown command and a command that throws in the main thread
\* are reported and the loop goes on to the next line; nothing is dispatched
\* after exit has run; the loop ends only on exit, end of input or an empty
\* input line.
C24_SessionLoop ==
    /\ \A k \in DOMAIN run_log :
          /\ run_log[k].line = k
          /\ k < FirstEnd \/ (k = FirstEnd /\ IsExitLine(input[k]))
          /\ IsUnknownLine(input[k]) => run_log[k].outcome = "invalid_command"
          /\ IsRaisingLine(input[k]) => run_log[k].outcome = "throws"
          /\ (k > 1) => run_log[k - 1].outcome # "exit"
    /\ (run_pc = "loop" /\ run_log # << >>)
          => LET last == run_log[Len(run_log)].outcome
             IN  /\ last = "invalid_command" => term.kind = "invalid_command"
                 /\ last = "throws" => term.kind = "error"
    /\ run_pc = "done"
          => /\ ended_by \in { "exit", "end_of_input", "empty_line" }
             /\ ended_by = "exit" <=> (FirstEnd <= Len(input) /\ IsExitLine(input[FirstEnd]))
             /\ ended_by = "empty_line" <=> (FirstEnd <= Len(input) /\ input[FirstEnd] = "")
             /\ ended_by = "end_of_input" <=> FirstEnd = Len(input) + 1
             /\ next_line = IF FirstEnd <= Len(input) THEN FirstEnd ELSE Len(input)
             /\ Len(run_log) = IF ended_by = "exit" THEN FirstEnd ELSE FirstEnd - 1

\* A session in which an unknown command and a throwing command were
\* reported, exit then ran, and the loop ended.
C24_Witness ==
    /\ run_pc = "done"
    /\ ended_by = "exit"
    /\ Len(run_log) = 3
    /\ { run_log[1].outcome, run_log[2].outcome } = { "invalid_command", "throws" }
    /\ run_log[3].outcome = "exit"

\* ------------------------------------------------------------------------
\* Claims about PyFrameObject::invalid_reason (checked under SpecDecode)
\* ------------------------------------------------------------------------

\* The pointer fields in the order of the claim, with the alignment each is
\* checked for and the reason its failure is reported with.
FramePointerChecks ==
    << [field |-> "f_back", alignment |-> 8, reason |-> "invalid_f_back"],
       [field |-> "f_code", alignment |-> 8, reason |-> "invalid_f_code"],
       [field |-> "f_builtins", alignment |-> 8, reason |-> "invalid_f_builtins"],
       [field |-> "f_globals", alignment |-> 8, reason |-> "invalid_f_globals"],
       [field |-> "f_locals", alignment |-> 8, reason |-> "invalid_f_locals"],
       [field |-> "f_valuestack", alignment |-> 1, reason |-> "invalid_f_valuestack"],
       [field |-> "f_trace", alignment |-> 1, reason |-> "invalid_f_trace"],
       [field |-> "f_gen", alignment |-> 1, reason |-> "invalid_f_gen"] >>

\* The first pointer field of o, in that order, that obj_valid_or_null
\* rejects; 0 if it accepts all of them.
FirstFailingPointer(o) ==
    SetMin({ i \in DOMAIN FramePointerChecks :
                ~obj_valid_or_null(o[FramePointerChecks[i].field],
                                   FramePointerChecks[i].alignment, sizeof_PyObject) }
               \cup { Len(FramePointerChecks) + 1 }) % (Len(FramePointerChecks) + 1)

\* The frame's fixed part followed by n pointers lies inside its region.
TrailingArrayFits(o, n) ==
    InsideOneRegion(o.addr, sizeof_PyFrameObject + n * sizeof_MappedPtr)

\* C25: PyFrameObject::invalid_reason returns invalid_f_state whenever
\* f_state is out of range; otherwise the reason of the first pointer field,
\* in the order f_back, f_code, f_builtins, f_globals, f_locals,
\* f_valuestack, f_trace, f_gen, whose check fails; and for a frame with a
\* non-null f_code (a valid code object with valid co_varnames) it returns
\* invalid_f_localsplus_range whenever the ob_size pointers after the frame
\* do not fit inside the frame's region, and it reads no element of that
\* array before: every element it reads lies inside the region.
C25_FrameInvalidReason ==
    (dec_obj.kind = "frame" /\ "invalid_reason" \in dec.called) =>
        LET ff == FirstFailingPointer(dec_obj)
        IN  /\ ~dec_obj.f_state_in_range => dec.invalid_reason = "invalid_f_state"
            /\ (dec_obj.f_state_in_range /\ ff # 0)
                  => dec.invalid_reason = FramePointerChecks[ff].reason
            /\ (/\ dec_obj.f_state_in_range /\ ff = 0
                 /\ dec_obj.f_code # 0
                 /\ dec_obj.f_code_ir = "ok" /\ dec_obj.co_varnames_ir = "ok"
                 /\ ~TrailingArrayFits(dec_obj, dec_obj.ob_size))
                  => dec.invalid_reason = "invalid_f_localsplus_range"
            /\ dec.invalid_reason = "invalid_f_localsplus_range"
                  => dec.localsplus_read = {}
            /\ \A z \in dec.localsplus_read : TrailingArrayFits(dec_obj, z)

\* invalid_reason has rejected a frame near its region's end whose two
\* locals do not fit, and has accepted the same kind of frame with one.
C25_Witness ==
    /\ dec_obj.kind = "frame"
    /\ dec_obj.addr = LastFrameAddr
    /\ dec_obj.ob_size = 2
    /\ "invalid_reason" \in dec.called
    /\ dec.invalid_reason = "invalid_f_localsplus_range"

\* ------------------------------------------------------------------------
\* Claims about the termination of find-all-stacks (checked under SpecStacks)
\* ------------------------------------------------------------------------

\* Lines i < j belong to the same traceback.
SameTraceback(i, j) ==
    \A k \in (i + 1) .. j : stderr_lines[k].kind # "header"

\* C26: find-all-stacks terminates for every collected map: the walk from a
\* root reaches a null f_back or an address missing from the map after
\* finitely many steps, also when the links contain a cycle reachable from
\* a root.  The walk's only state is addr and its next value is
\* back_for_frame.at(addr), so it ends if and only if no traceback comes to
\* the same frame twice.
C26_WalkEnds ==
    \A i, j \in DOMAIN stderr_lines :
        (/\ i < j
         /\ stderr_lines[i].kind = "frame" /\ stderr_lines[j].kind = "frame"
         /\ SameTraceback(i, j))
            => stderr_lines[i].addr # stderr_lines[j].addr

\* ------------------------------------------------------------------------
\* Claims about the addresses map_all_addresses hands out (SpecScan)
\* ------------------------------------------------------------------------

\* Region r holds the object_size bytes at A, and A lies a multiple of the
\* stride past the region's start.
InRegionAtStride(A, r) ==
    /\ A >= r.addr
    /\ (A - r.addr) % args.stride = 0
    /\ A + args.object_size <= r.addr + r.size

\* C27: every predicate invocation made by map_all_addresses receives an
\* address A for which some region r satisfies (A - r.start) % stride = 0
\* and A + object_size <= r.start + r.size, and no read of the scanner
\* reaches past a region (which would end the process or hand the predicate
\* bytes from outside the region), for every region list, including sizes
\* that are not multiples of the stride and a first region smaller than
\* object_size.
C27_InvocationsInsideRegion ==
    /\ mainpc # "terminated"
    /\ \A A \in DOMAIN calls :
          \E i \in DOMAIN all_regions : InRegionAtStride(A, all_regions[i])

\* C28: whenever the progress loop has built a line, the region index it
\* computed from the shared counter is less than the number of regions and
\* the reported address is that region's start plus a non-negative offset
\* smaller than the region's size, for any number of regions.
C28_ProgressInsideRegion ==
    progress # NoProgress =>
        /\ progress.current_region < region_count
        /\ progress.addr >= regions(progress.current_region).addr
        /\ progress.addr < regions(progress.current_region).addr
                              + regions(progress.current_region).size

\* ------------------------------------------------------------------------
\* Claims about find-all-objects --count (checked under SpecFind)
\* ------------------------------------------------------------------------

\* C29: for the same snapshot and type selection, the number reported by
\* find-all-objects --count equals the number reported by find-all-objects
\* without --count.
C29_CountEqualsListing ==
    \A k1, k2 \in DOMAIN reports :
        k1.type_addr = k2.type_addr => reports[k1] = reports[k2]

\* ------------------------------------------------------------------------
\* Claims about max_entries (checked under SpecRepr)
\* ------------------------------------------------------------------------

\* C30: dict and set repr with max_entries = N >= 0 render at most N entries
\* of a container, and when the container at the root has more than N
\* entries the finished output contains the "..." marker, for every N
\* including 0 and 1.
C30_OmissionIsMarked ==
    trav.max_entries >= 0 =>
        /\ \A i \in DOMAIN repr_stack : repr_stack[i].n <= trav.max_entries
        /\ (repr_pc = "done" /\ Len(heap[ReprRoot].items) > trav.max_entries)
              => "..." \in repr_out

====
